---- MODULE Spec2Model ----
(***************************************************************************)
(* One-way calendar sync (src/src/onewaySync.ts): the reconciliation       *)
(* engine, the cursor store and the run lock, as a state machine.          *)
(*                                                                         *)
(* Strings are sequences of tokens (<<"s1", ":", "u1">>), so that          *)
(* concatenation, suffix removal, trimming and splitting are computed.     *)
(* Timestamps and event times are integers.  Null stands for an absent     *)
(* (undefined) field; a stamp of 0 is an absent stamp.                     *)
(***************************************************************************)
EXTENDS Integers, Sequences, FiniteSets, TLC

Null == <<"null">>

(***************************************************************************)
(* Bounds of the model.                                                    *)
(***************************************************************************)
MaxTime == 3      \* the clock runs over 2..MaxTime
MaxIds == 4       \* target event ids ever allocated
MaxPage == 2      \* events per source page
MaxPages == 2     \* list requests answered with a page, per source sync
MaxRuns == 2      \* invocations of main
MaxFaults == 1    \* remote calls and file writes that fail in one behaviour
MaxEvents == 2    \* source events listed in one behaviour
MaxMirrors == 2   \* events of the target calendar a dedupe run may find

(***************************************************************************)
(* Strings.                                                                *)
(***************************************************************************)
Str(tok) == <<tok>>
Colon == <<":">>
GoogleSuffix == "@google.com"

\* String.prototype.toLowerCase, on the tokens the model uses.
LowerTok(c) == CASE c = "A" -> "a" [] c = "B" -> "b" [] OTHER -> c

ToLower(s) == [i \in 1..Len(s) |-> LowerTok(s[i])]

RECURSIVE TrimLeft(_)
TrimLeft(s) == IF s # <<>> /\ Head(s) = " " THEN TrimLeft(Tail(s)) ELSE s

RECURSIVE TrimRight(_)
TrimRight(s) ==
  IF s # <<>> /\ s[Len(s)] = " " THEN TrimRight(SubSeq(s, 1, Len(s) - 1)) ELSE s

\* String.prototype.trim
Trim(s) == TrimRight(TrimLeft(s))

\* key.split(':')[0]: the tokens before the first ':'.
RECURSIVE FirstSegment(_)
FirstSegment(s) ==
  IF s = <<>> \/ Head(s) = ":" THEN <<>> ELSE <<Head(s)>> \o FirstSegment(Tail(s))

\* const isoOrDate = (dt, d) => dt ?? d ?? ""
isoOrDate(dt, d) == IF dt # Null THEN dt ELSE IF d # Null THEN d ELSE <<>>

\* A time object {dateTime, date} is the pair <<dateTime, date>>.
\* ev.start?.dateTime and ev.start?.date of a possibly absent time object.
DateTimeOf(t) == IF t = Null THEN Null ELSE t[1]
DateOf(t) == IF t = Null THEN Null ELSE t[2]

\* iCalUID.replace(/@google\.com$/, ''), the empty string returned as it is.
normalizeICalUID(iCalUID) ==
  IF iCalUID # <<>> /\ iCalUID[Len(iCalUID)] = GoogleSuffix
    THEN SubSeq(iCalUID, 1, Len(iCalUID) - 1)
    ELSE iCalUID

buildOriginKey(srcCanonicalId, ev) ==
  LET normalizedUID == normalizeICalUID(IF ev.iCalUID # Null THEN ev.iCalUID ELSE ev.id)
      base == srcCanonicalId \o Colon \o normalizedUID
      orig == isoOrDate(DateTimeOf(ev.originalStartTime), DateOf(ev.originalStartTime))
  IN  IF orig # <<>> THEN base \o Colon \o orig ELSE base

\* (ev.summary || "").trim().toLowerCase(), then `${title}:${start}:${end}`
buildTitleTimeKey(ev) ==
  LET title == ToLower(Trim(IF ev.summary = Null THEN <<>> ELSE ev.summary))
      startTime == isoOrDate(DateTimeOf(ev.start), DateOf(ev.start))
      endTime == isoOrDate(DateTimeOf(ev.end), DateOf(ev.end))
  IN  title \o Colon \o startTime \o Colon \o endTime

\* description?.trim() is truthy
NonBlank(s) == s # Null /\ Trim(s) # <<>>

getEventDetailScore(ev) ==
  (IF NonBlank(ev.description) THEN 2 ELSE 0)
  + (IF NonBlank(ev.location) THEN 1 ELSE 0)
  + ev.attendees
  + ev.attachments
  + (IF ev.overrides > 0 THEN 1 ELSE 0)

\* new Date(e.updated || e.created || 0).getTime(); an absent stamp is 0.
StampOf(e) == IF e.updated # 0 THEN e.updated ELSE IF e.created # 0 THEN e.created ELSE 0

isEventNewer(eventA, eventB) ==
  LET timeA == StampOf(eventA)
      timeB == StampOf(eventB)
  IN  IF timeA # timeB
        THEN timeA > timeB
        ELSE getEventDetailScore(eventA) > getEventDetailScore(eventB)

(***************************************************************************)
(* Events.  A source event and a target event are records with the fields  *)
(* the code reads; a target event also has its private origin tag.         *)
(***************************************************************************)
\* new Date(iso).getTime(), in days, on the time tokens the model uses.
ParseTime(s) ==
  CASE s = <<"T1">> -> 1 [] s = <<"T2">> -> 2 [] s = <<"T3">> -> 3 [] OTHER -> 0

\* new Date(ev.start?.dateTime || ev.start?.date)
StartOf(ev) ==
  ParseTime(IF DateTimeOf(ev.start) # Null /\ DateTimeOf(ev.start) # <<>>
              THEN DateTimeOf(ev.start) ELSE DateOf(ev.start))

EndOf(ev) ==
  ParseTime(IF DateTimeOf(ev.end) # Null /\ DateTimeOf(ev.end) # <<>>
              THEN DateTimeOf(ev.end) ELSE DateOf(ev.end))

\* searchEnd.setDate(searchEnd.getDate() + 1)
SearchDays == 1

\* A body that copies the attendee list of the source event.
mirrorBodyInviting(ev, key) ==
  [summary |-> IF ev.summary = Null THEN Str("(busy)") ELSE ev.summary,
   description |-> ev.description,
   location |-> ev.location,
   start |-> ev.start,
   end |-> ev.end,
   visibility |-> ev.visibility,
   recurrence |-> ev.recurrence,
   attendees |-> ev.attendees,
   origin |-> key]

\* Lines 269-282; attendees: undefined is 0, no attendee list.
mirrorBodyFrom(ev, key) ==
  [summary |-> IF ev.summary = Null THEN Str("(busy)") ELSE ev.summary,
   description |-> ev.description,
   location |-> ev.location,
   start |-> ev.start,
   end |-> ev.end,
   visibility |-> ev.visibility,
   recurrence |-> ev.recurrence,
   attendees |-> 0,
   origin |-> key]

\* { ...ev, ...mirrorBodyFrom(ev, key) }: the body's keys override the event's,
\* attendees: undefined included.
CurrentEvent(ev, key) ==
  [ev EXCEPT !.summary = mirrorBodyFrom(ev, key).summary, !.attendees = 0]

(***************************************************************************)
(* The remote target calendar: a set of non-deleted events.  A world       *)
(* w = [tgt, nid, log] is the calendar, the next id the service hands out  *)
(* and the writes issued so far while one source event is processed.       *)
(***************************************************************************)
\* The events of S in the order the service lists them: ord is a sequence
\* of all ids.
RECURSIVE InOrder(_, _)
InOrder(S, ord) ==
  IF ord = <<>> THEN <<>>
  ELSE LET here == {e \in S : e.id = Head(ord)}
       IN  (IF here = {} THEN <<>> ELSE <<CHOOSE e \in here : TRUE>>)
             \o InOrder(S, Tail(ord))

\* events.list with privateExtendedProperty origin=key
TargetByOrigin(tgt, key) == {e \in tgt : e.origin = key}

\* events.list with iCalUID
TargetByICal(tgt, iuid) == {e \in tgt : e.iCalUID = iuid}

\* events.list with timeMin, timeMax and q: the events that end after
\* timeMin, start before timeMax and whose title matches the text searched
\* for, letter case and outer blanks ignored.
TargetByWindow(tgt, timeMin, timeMax, q) ==
  {e \in tgt : /\ EndOf(e) > timeMin
               /\ StartOf(e) < timeMax
               /\ e.summary # Null
               /\ ToLower(Trim(e.summary)) = ToLower(Trim(q))}

\* events.insert: the service allots the id, the stamps and its own iCalUID.
TargetInsert(w, body, now) ==
  [w EXCEPT
     !.tgt = @ \cup {[id |-> w.nid, origin |-> body.origin,
                      summary |-> body.summary, description |-> body.description,
                      location |-> body.location, start |-> body.start,
                      end |-> body.end, visibility |-> body.visibility,
                      recurrence |-> body.recurrence,
                      iCalUID |-> <<"m", ToString(w.nid)>>, originalStartTime |-> Null,
                      updated |-> now, created |-> now,
                      attendees |-> body.attendees, attachments |-> 0,
                      overrides |-> 0]},
     !.nid = @ + 1,
     !.log = Append(@, [op |-> "insert", id |-> w.nid, ok |-> TRUE])]

\* events.patch: a field the body leaves undefined keeps its value.
PatchField(old, new) == IF new = Null THEN old ELSE new

PatchedEvent(e, body, now) ==
  [e EXCEPT !.summary = PatchField(@, body.summary),
            !.description = PatchField(@, body.description),
            !.location = PatchField(@, body.location),
            !.start = PatchField(@, body.start),
            !.end = PatchField(@, body.end),
            !.visibility = PatchField(@, body.visibility),
            !.recurrence = PatchField(@, body.recurrence),
            !.attendees = IF body.attendees = 0 THEN @ ELSE body.attendees,
            !.origin = body.origin,
            !.updated = now]

TargetPatch(w, id, body, now) ==
  [w EXCEPT
     !.tgt = {IF e.id = id THEN PatchedEvent(e, body, now) ELSE e : e \in w.tgt},
     !.log = Append(@, [op |-> "patch", id |-> id, ok |-> TRUE])]

\* patch of requestBody { extendedProperties: { private: { origin: key } } }
TargetTag(w, id, key, now) ==
  [w EXCEPT
     !.tgt = {IF e.id = id THEN [e EXCEPT !.origin = key, !.updated = now] ELSE e
                : e \in w.tgt},
     !.log = Append(@, [op |-> "tag", id |-> id, ok |-> TRUE])]

TargetDelete(w, id) ==
  [w EXCEPT !.tgt = {e \in w.tgt : e.id # id},
            !.log = Append(@, [op |-> "delete", id |-> id, ok |-> TRUE])]

\* A write the service rejects: issued, nothing changed.
Failed(w, op, id) == [w EXCEPT !.log = Append(@, [op |-> op, id |-> id, ok |-> FALSE])]

(***************************************************************************)
(* Lookups and the processing of one source event.  ord is the order in    *)
(* which the service lists events; fl says which remote calls fail while   *)
(* this event is processed and the code the errors carry.  A result is     *)
(* [w, thrown]: the world after the event and the code of the error that   *)
(* left the loop body (0: none).                                           *)
(***************************************************************************)
Looked(w, op) == [w EXCEPT !.log = Append(@, [op |-> op, id |-> 0, ok |-> TRUE])]

\* A pick that takes the event listed last, whenever it was created.
LastListed(items, best) == IF items = <<>> THEN best ELSE items[Len(items)]

\* items.sort((a, b) => created(a) - created(b))[0]: the sort is stable.
RECURSIVE FirstOldest(_, _)
FirstOldest(items, best) ==
  IF items = <<>> THEN best
  ELSE FirstOldest(Tail(items),
                   IF Head(items).created < best.created THEN Head(items) ELSE best)

\* The id of the event found, 0 for null.
findByOrigin(tgt, key, ord) ==
  LET items == InOrder(TargetByOrigin(tgt, key), ord)
  IN  IF Len(items) > 1 THEN FirstOldest(Tail(items), Head(items)).id
      ELSE IF items # <<>> THEN items[1].id ELSE 0

\* A lookup by iCalUID that takes the first event listed, whatever instance
\* it is.
FirstListed(items, orig, dflt) == dflt

\* items.find(c => isoOrDate(c.originalStartTime...) === orig) || items[0]
RECURSIVE FindInstance(_, _, _)
FindInstance(items, orig, dflt) ==
  IF items = <<>> THEN dflt
  ELSE IF isoOrDate(DateTimeOf(Head(items).originalStartTime),
                    DateOf(Head(items).originalStartTime)) = orig
         THEN Head(items)
         ELSE FindInstance(Tail(items), orig, dflt)

\* [w, mirror]: the world after the backfill and the id found (0: null).
findByICalAndBackfill(w, ev, key, ord, fl, now) ==
  IF ev.iCalUID = Null \/ ev.iCalUID = <<>> THEN [w |-> w, mirror |-> 0]
  ELSE
    LET items == InOrder(TargetByICal(w.tgt, ev.iCalUID), ord)
        orig == isoOrDate(DateTimeOf(ev.originalStartTime), DateOf(ev.originalStartTime))
        winner == IF orig # <<>> THEN FindInstance(items, orig, items[1]) ELSE items[1]
        w1 == Looked(w, "byICal")
    IN  IF items = <<>> THEN [w |-> w1, mirror |-> 0]
        ELSE [w |-> IF fl.backfill THEN Failed(w1, "tag", winner.id)
                    ELSE TargetTag(w1, winner.id, key, now),
              mirror |-> winner.id]

\* The matching items, in the order listed.
findByTitleTime(tgt, ev, ord, fl) ==
  LET titleTimeKey == buildTitleTimeKey(ev)
      title == FirstSegment(titleTimeKey)
  IN  IF title = <<>> \/ ev.start = Null THEN <<>>
      ELSE IF fl.titleList THEN <<>>
      ELSE SelectSeq(InOrder(TargetByWindow(tgt, StartOf(ev), StartOf(ev) + SearchDays,
                                            ev.summary), ord),
                     LAMBDA item : buildTitleTimeKey(item) = titleTimeKey)

\* Whether findByTitleTime calls the service.
TitleSearched(ev) == FirstSegment(buildTitleTimeKey(ev)) # <<>> /\ ev.start # Null

\* for (const dup of validDuplicates) { ... }: bestIsCur is
\* bestEvent === currentEvent, upd the id of eventToUpdate (0: null).
RECURSIVE DupLoop(_, _, _, _, _, _)
DupLoop(dups, bestIsCur, best, upd, w, fl) ==
  IF dups = <<>> THEN [upd |-> upd, w |-> w]
  ELSE
    LET dup == Head(dups)
    IN  IF isEventNewer(dup, best)
          THEN IF bestIsCur
                 THEN DupLoop(Tail(dups), FALSE, dup, dup.id, w, fl)
                 ELSE DupLoop(Tail(dups), bestIsCur, best, upd, w, fl)
          ELSE DupLoop(Tail(dups), bestIsCur, best, upd,
                       IF dup.id \in fl.delete THEN Failed(w, "delete", dup.id)
                       ELSE TargetDelete(w, dup.id),
                       fl)

\* Lines 323-339: if (ev.status === "cancelled") { ... continue; }
\* findByOrigin(...) returns a promise, which is truthy, so the || never
\* reaches findByICalAndBackfill.
ProcessCancelled(w, ev, key, ord, fl, now) ==
  IF fl.originList THEN [w |-> Looked(w, "byOrigin"), thrown |-> fl.code]
  ELSE
    LET mirror == findByOrigin(w.tgt, key, ord)
        w1 == Looked(w, "byOrigin")
    IN  IF mirror # 0
          THEN [w |-> IF mirror \in fl.delete THEN Failed(w1, "delete", mirror)
                      ELSE TargetDelete(w1, mirror),
                thrown |-> 0]
          ELSE [w |-> w1, thrown |-> 0]

\* A catch that answers a failed insert with another insert.
AfterInsertRetry(w, ev, key, body, ord, fl, now) ==
  [w |-> TargetInsert(w, body, now), thrown |-> 0]

\* Lines 409-438: the catch of a failed insert.
AfterInsertFailure(w, ev, key, body, ord, fl, now) ==
  IF fl.recheck THEN [w |-> Looked(w, "byOrigin"), thrown |-> fl.code]
  ELSE
    LET w1 == Looked(w, "byOrigin")
        m1 == findByOrigin(w.tgt, key, ord)
        r == IF m1 # 0 THEN [w |-> w1, mirror |-> m1]
             ELSE findByICalAndBackfill(w1, ev, key, ord, fl, now)
    IN  IF r.mirror # 0
          THEN [w |-> IF fl.patch THEN Failed(r.w, "patch", r.mirror)
                      ELSE TargetPatch(r.w, r.mirror, body, now),
                thrown |-> 0]
          ELSE IF fl.insert = "duplicate" THEN [w |-> r.w, thrown |-> 0]
          ELSE [w |-> r.w, thrown |-> fl.code]

\* Lines 396-457: mirror is the id the title+time pass chose (0: false).
CreateOrUpdate(w, mirror, ev, key, ord, fl, now) ==
  LET body == mirrorBodyFrom(ev, key)
  IN  IF mirror = 0
        THEN IF fl.originList THEN [w |-> Looked(w, "byOrigin"), thrown |-> fl.code]
             ELSE
               LET found == findByOrigin(w.tgt, key, ord)
                   w1 == Looked(w, "byOrigin")
               IN  IF found = 0
                     THEN IF fl.insert = "ok"
                            THEN [w |-> TargetInsert(w1, body, now), thrown |-> 0]
                            ELSE AfterInsertFailure(Failed(w1, "insert", 0), ev, key,
                                                    body, ord, fl, now)
                     ELSE IF fl.patch
                            THEN [w |-> Failed(w1, "patch", found), thrown |-> fl.code]
                            ELSE [w |-> TargetPatch(w1, found, body, now), thrown |-> 0]
        ELSE IF fl.patch
               THEN [w |-> Failed(w, "patch", mirror), thrown |-> fl.code]
               ELSE [w |-> TargetPatch(w, mirror, body, now), thrown |-> 0]

\* Lines 345-394: let mirror = false; then the title+time pass.
TitleTimePass(w, ev, key, ord, fl) ==
  LET titleTimeDuplicates == findByTitleTime(w.tgt, ev, ord, fl)
      w1 == IF TitleSearched(ev) THEN Looked(w, "byTitle") ELSE w
      validDuplicates ==
        SelectSeq(titleTimeDuplicates,
                  LAMBDA dup : dup.origin = Null \/ dup.origin = <<>> \/ dup.origin # key)
      currentEvent == CurrentEvent(ev, key)
  IN  IF validDuplicates = <<>> THEN [upd |-> 0, w |-> w1]
      ELSE DupLoop(validDuplicates, TRUE, currentEvent, 0, w1, fl)

\* One iteration of the for loop over the items of a page, lines 315-457.
ProcessEvent(w, sourceId, ev, ord, fl, now) ==
  LET key == buildOriginKey(sourceId, ev)
  IN  IF ev.status = "cancelled"
        THEN ProcessCancelled(w, ev, key, ord, fl, now)
        ELSE LET pass == TitleTimePass(w, ev, key, ord, fl)
             IN  CreateOrUpdate(pass.w, pass.upd, ev, key, ord, fl, now)

(***************************************************************************)
(* Configuration and the inputs the remote service and the faults are      *)
(* drawn from.                                                             *)
(***************************************************************************)
Procs == 1..MaxRuns          \* every process calls main once

Primary == Str("primary")
S1 == Str("s1")
S2 == Str("s2")

\* Lines 128-132: "primary" is resolved by calendarList.get, which answers
\* with the id of the account's own calendar, s1.
resolveCanonicalId(id) == IF id # Primary THEN id ELSE S1

\* Lines 510-517: the canonical ids, each once, in the order of first mention.
RECURSIVE AddCanonical(_, _)
AddCanonical(ids, seen) ==
  IF ids = <<>> THEN seen
  ELSE LET c == resolveCanonicalId(Head(ids))
       IN  AddCanonical(Tail(ids),
                        IF \E i \in 1..Len(seen) : seen[i] = c THEN seen
                        ELSE Append(seen, c))

canonicalSourceIds(ids) == AddCanonical(ids, <<>>)

Gone == 410
RateLimited == 429           \* the status of a write the service refuses for quota

CanonIds == {S1, S2}

Tokens == {1}                \* sync tokens; 0 is no token

T1 == <<Str("T1"), Null>>
T2 == <<Str("T2"), Null>>

SourceEvent(orig, status, summary, updated) ==
  [id |-> IF orig = Null THEN Str("e1") ELSE <<"e1", "_">> \o orig[1],
   iCalUID |-> <<"u1", GoogleSuffix>>, status |-> status,
   summary |-> summary, description |-> Null, location |-> Null,
   start |-> IF status = "cancelled" THEN Null ELSE T1,
   end |-> IF status = "cancelled" THEN Null ELSE T2,
   visibility |-> Null, recurrence |-> Null, originalStartTime |-> orig,
   updated |-> updated, created |-> 1,
   attendees |-> 0, attachments |-> 0, overrides |-> 0]

\* The events the sources may list: a series master and one exception of it,
\* confirmed (the exception with the master's title or another) or
\* cancelled, last changed at time 1 or at time MaxTime.
AllEvents ==
  {SourceEvent(Null, "confirmed", Str("A"), updated) : updated \in {1, MaxTime}}
  \cup {SourceEvent(T1, "confirmed", summary, 1) : summary \in {Str("A"), Str("B")}}
  \cup {SourceEvent(Null, "cancelled", Null, MaxTime)}

\* A behaviour of the model is about two of them: the master with an
\* exception of the same title or of another, with its own later edit, or
\* with its cancellation.
Universes ==
  {{SourceEvent(Null, "confirmed", Str("A"), 1), e} :
     e \in AllEvents \ {SourceEvent(Null, "confirmed", Str("A"), 1)}}

SeqsUpTo(S, n) == UNION {[1..k -> S] : k \in 0..n}

\* The pages a source may list at time now: an event is listed once.
Pages(U, now) ==
  {page \in SeqsUpTo({e \in U : e.updated <= now}, MaxPage) :
     \A i, j \in 1..Len(page) : page[i].id = page[j].id => i = j}

TargetEvent(id, origin, summary, description, iCalUID, updated) ==
  [id |-> id, origin |-> origin, summary |-> summary, description |-> description,
   location |-> Null, start |-> T1, end |-> T2, visibility |-> Null,
   recurrence |-> Null, iCalUID |-> iCalUID, originalStartTime |-> Null,
   updated |-> updated, created |-> 1, attendees |-> 0, attachments |-> 0,
   overrides |-> 0]

KeyMaster == buildOriginKey(S1, SourceEvent(Null, "confirmed", Str("A"), 1))
KeyException == buildOriginKey(S1, SourceEvent(T1, "confirmed", Str("A"), 1))

\* The target calendars a first run may find: at most one mirror per key,
\* and possibly the owner's own copy of the event, which has no origin tag
\* and was last changed at time 2.
InitTargets ==
  {{},
   {TargetEvent(1, KeyMaster, Str("A"), Null, <<"m", "1">>, 1)},
   {TargetEvent(1, KeyMaster, Str("A"), Null, <<"m", "1">>, 1),
    TargetEvent(2, Null, Str("A"), Null, <<"u1", GoogleSuffix>>, 2)}}

\* Two copies of one event that the owner made by hand: the same title and
\* start/end, no origin tag, last changed at the same time 2; only the
\* first has a description.
DupTarget ==
  {TargetEvent(1, Null, Str("A"), Str("d"), <<"x", "1">>, 2),
   TargetEvent(2, Null, Str("A"), Null, <<"x", "2">>, 2)}

\* The mirror of the series master, made when the master still had a
\* description.
DescribedTarget == {TargetEvent(1, KeyMaster, Str("A"), Str("d"), <<"m", "1">>, 1)}

Orders(S) ==
  {o \in [1..Cardinality(S) -> S] : \A i, j \in 1..Cardinality(S) : o[i] = o[j] => i = j}

NoFault ==
  [titleList |-> FALSE, originList |-> FALSE, delete |-> {}, insert |-> "ok",
   recheck |-> FALSE, backfill |-> FALSE, patch |-> FALSE, code |-> 500]

\* One remote call fails while an event is processed (two on the path that
\* follows a failed insert).
Faults ==
  {NoFault,
   [NoFault EXCEPT !.titleList = TRUE],
   [NoFault EXCEPT !.delete = 1..(MaxIds + 1)],
   [NoFault EXCEPT !.insert = "duplicate"],
   [NoFault EXCEPT !.insert = "error", !.backfill = TRUE],
   [NoFault EXCEPT !.insert = "error", !.patch = TRUE]}
  \cup {[NoFault EXCEPT !.originList = TRUE, !.code = c] : c \in {500, Gone}}
  \cup {[NoFault EXCEPT !.insert = "error", !.code = c] : c \in {500, Gone}}
  \cup {[NoFault EXCEPT !.insert = "error", !.recheck = TRUE, !.code = c] : c \in {500, Gone}}
  \cup {[NoFault EXCEPT !.patch = TRUE, !.code = c] : c \in {500, Gone, RateLimited}}
  \cup {[NoFault EXCEPT !.insert = "error", !.code = RateLimited]}

(***************************************************************************)
(* State.                                                                  *)
(***************************************************************************)
VARIABLES
  target,       \* the target calendar: its non-deleted events
  nextId,       \* the id the service gives the next inserted event
  now,          \* the clock
  stateFile,    \* STATE_FILE: canonical source id -> sync token (0: none)
  lockFile,     \* LOCK_FILE: <<>> when absent, else <<pid>>
  cfgSources,   \* SOURCE_IDS
  RESET_ALL,    \* --reset or RESET=1
  RESET_FOR,    \* RESET_FOR, as the list of its comma-separated parts
  universe,     \* the events each source may list in this behaviour
  served,       \* the page an unchanged source lists (PageSpec)
  pc,           \* where each process is in main
  readPid,      \* acquireLock: the pid read from the lock file
  sawPid,       \* history: the pid the lock file held when the process's first
                \* exclusive create failed (-1: it has not)
  stateMem,     \* state.syncTokens of the running main
  canon,        \* canonical source ids still to sync, the current one first
  syncTok,      \* baseParams.syncToken (0: deleted or never set: time window)
  pageToken,    \* pageToken (0: undefined)
  items,        \* the items of the current page not yet processed
  respPage,     \* data.nextPageToken of the current page (0: none)
  respSync,     \* data.nextSyncToken of the current page (0: none)
  pagesFetched, \* pages listed in the current source sync
  shown,        \* ids of the source events listed in the current source sync
  refused,      \* history: processes whose acquireLock returned false
  acquired,     \* history: processes whose acquireLock returned true
  writers,      \* history: processes that wrote the target or the state file
  threw,        \* history: processes whose main threw
  budget,       \* the remote calls and file writes that may still fail
  listed,       \* history: the source events listed so far
  recovering,   \* history: sources whose cursor was rejected and not yet refetched
  last          \* history: what the last step of a run did

vars ==
  <<target, nextId, now, stateFile, lockFile, cfgSources, RESET_ALL, RESET_FOR,
                 universe, served, pc, readPid, sawPid,
    stateMem, canon, syncTok, pageToken, items, respPage, respSync, pagesFetched, shown,
    refused, acquired, writers, threw, budget, listed, recovering, last>>

envVars == <<target, nextId, now, stateFile, cfgSources, RESET_ALL, RESET_FOR,
                 universe, served>>
runVars == <<stateMem, canon, syncTok, pageToken, items, respPage, respSync, pagesFetched, shown>>
histVars == <<refused, acquired, writers, threw, budget, listed, recovering, last>>

NoTokens == [s \in CanonIds |-> 0]
Idle(kind) == [kind |-> kind]

Alive(q) == q \in DOMAIN pc /\ pc[q] \notin {"idle", "done", "skipped", "dead"}
Running(p) == pc[p] \in {"load", "source", "list", "events", "finally"}

(***************************************************************************)
(* The run lock, lines 68-107.                                             *)
(***************************************************************************)
\* acquireLock run without another process stepping in between: [ok, file].
acquireLock(file, me, live) ==
  IF file = <<>> THEN [ok |-> TRUE, file |-> <<me>>]
  ELSE IF file[1] \in live THEN [ok |-> FALSE, file |-> file]
  ELSE [ok |-> TRUE, file |-> <<me>>]

\* A lock file <<pid, "denied">> is one the process may neither read nor
\* unlink (it belongs to another user, in a directory it cannot write).
Denied(file) == Len(file) > 1

\* fs.unlink(path): the file after the call and the code of the error it
\* rejects with ("ok": none).
unlink(file) ==
  IF file = <<>> THEN [file |-> file, code |-> "ENOENT"]
  ELSE IF Denied(file) THEN [file |-> file, code |-> "EACCES"]
  ELSE [file |-> <<>>, code |-> "ok"]

\* Mutant of releaseLock: the lock file is left in place.
releaseLockKeep(file) == [file |-> file, thrown |-> FALSE]

\* Mutant of releaseLock: the error of unlink is thrown on.
releaseLockRethrow(file) ==
  [file |-> unlink(file).file, thrown |-> unlink(file).code # "ok"]

\* Lines 99-107: try { unlink } catch: ENOENT is ignored, any other error is
\* logged; [file, thrown]: the file afterwards and whether releaseLock throws.
releaseLock(file) == [file |-> unlink(file).file, thrown |-> FALSE]

\* Lines 61-65: the file after saveState(state); a write the file system
\* rejects is logged and the file stays as it was.
saveState(file, tokens, written) == IF written THEN tokens ELSE file

(***************************************************************************)
(* main, lines 483-532, and syncOneSource, lines 284-480.                  *)
(***************************************************************************)
\* Lines 490-494: where main goes after acquireLock.
AfterAcquire(ok) == IF ok THEN "load" ELSE "skipped"

MainStart(p) ==
  /\ pc[p] = "idle"
  /\ \A q \in Procs : q < p => pc[q] # "idle"
  /\ LET r == acquireLock(lockFile, p, {q \in Procs : Alive(q)})
     IN  /\ lockFile' = r.file
         /\ pc' = [pc EXCEPT ![p] = AfterAcquire(r.ok)]
         /\ refused' = IF r.ok THEN refused ELSE refused \cup {p}
         /\ acquired' = IF r.ok THEN acquired \cup {p} ELSE acquired
  /\ last' = Idle("start")
  /\ UNCHANGED <<envVars, runVars, readPid, sawPid, writers, threw, budget, listed, recovering>>

\* Lines 501-507: RESET_FOR.split(",").map(s => s.trim()).filter(Boolean), and
\* the tokens left once the reset directives are applied; a token is
\* deleted under the id as it is written in RESET_FOR.
ResetIds ==
  {Trim(RESET_FOR[i]) : i \in 1..Len(RESET_FOR)} \ {<<>>}

applyReset(tokens) ==
  IF RESET_ALL THEN NoTokens
  ELSE [s \in CanonIds |-> IF s \in ResetIds THEN 0 ELSE tokens[s]]

\* Lines 497-522: loadState, then every configured id is resolved; the
\* calendarList.get call made for "primary" may fail, which throws out of main.
LoadAndResolve(p) ==
  /\ pc[p] = "load"
  /\ \E fail \in {f \in BOOLEAN :
                    f => budget > 0 /\ \E i \in 1..Len(cfgSources) : cfgSources[i] = Primary} :
       IF fail
         THEN /\ pc' = [pc EXCEPT ![p] = "finally"]
              /\ threw' = threw \cup {p}
              /\ budget' = budget - 1
              /\ UNCHANGED <<stateMem, canon>>
         ELSE /\ pc' = [pc EXCEPT ![p] = "source"]
              /\ stateMem' = applyReset(stateFile)
              /\ canon' = canonicalSourceIds(cfgSources)
              /\ UNCHANGED <<threw, budget>>
  /\ last' = [kind |-> "load", failed |-> pc'[p] = "finally",
              pending |-> {resolveCanonicalId(cfgSources[i]) :
                             i \in {j \in 1..Len(cfgSources) : cfgSources[j] # Primary}}]
  /\ UNCHANGED <<envVars, lockFile, readPid, sawPid, syncTok, pageToken, items, respPage,
                 respSync, pagesFetched, shown, refused, acquired, writers, listed, recovering>>

\* Lines 292-306, or the end of the loop of line 524.
SourceStart(p) ==
  /\ pc[p] = "source"
  /\ IF canon = <<>>
       THEN /\ pc' = [pc EXCEPT ![p] = "finally"]
            /\ UNCHANGED <<syncTok, pageToken, pagesFetched, shown>>
       ELSE /\ pc' = [pc EXCEPT ![p] = "list"]
            /\ syncTok' = stateMem[Head(canon)]
            /\ pageToken' = 0
            /\ pagesFetched' = 0
            /\ shown' = {}
  /\ items' = <<>>
  /\ respPage' = 0
  /\ respSync' = 0
  /\ last' = Idle("source")
  /\ UNCHANGED <<envVars, lockFile, readPid, sawPid, stateMem, canon, refused, acquired, writers,
                 threw, budget, listed, recovering>>

\* Line 303: the window of a full fetch is two weeks long.
TwoWeeks == 2

\* A request that carries the cursor and the time window at once.
baseParamsBoth(token, t) ==
  [syncToken |-> token, timeMin |-> t, timeMax |-> t + TwoWeeks]

\* Lines 292-305 and 471-473: the fetch parameters of the list request of
\* line 310, as the record of the keys they hold. The if/else of lines
\* 298-304 sets either syncToken or timeMin and timeMax, and the 410 handler
\* deletes syncToken when it sets timeMin and timeMax, so that the keys are
\* known from baseParams.syncToken (0: absent).
baseParams(token, t) ==
  IF token # 0 THEN [syncToken |-> token]
  ELSE [timeMin |-> t, timeMax |-> t + TwoWeeks]

\* while (pageToken): the next page, or the next source.
LoopTo(tok) == IF tok # 0 THEN "list" ELSE "source"

\* Lines 466-476 and the loop condition that `continue` jumps to.
Handle410(p, written) ==
  /\ stateMem' = [stateMem EXCEPT ![Head(canon)] = 0]
  /\ stateFile' = saveState(stateFile, stateMem', written)
  /\ syncTok' = 0
  /\ pageToken' = 0
  /\ pc' = [pc EXCEPT ![p] = LoopTo(pageToken')]
  /\ canon' = IF pageToken' # 0 THEN canon ELSE Tail(canon)
  /\ writers' = writers \cup {p}
  /\ recovering' = recovering \cup {Head(canon)}

\* Line 310 answered with a page: nextPageToken when more pages follow,
\* nextSyncToken with the last page.
ListOk(p) ==
  /\ pc[p] = "list"
  /\ pagesFetched < MaxPages
  /\ \E page \in Pages(universe[Head(canon)], now), more \in BOOLEAN,
        tok \in Tokens \cup {0} :
       /\ more => pagesFetched + 1 < MaxPages
       /\ tok = 0 <=> more
       /\ \A i \in 1..Len(page) : page[i].id \notin shown
       /\ shown' = shown \cup {page[i].id : i \in 1..Len(page)}
       /\ listed + Len(page) <= MaxEvents
       /\ listed' = listed + Len(page)
       /\ items' = page
       /\ respPage' = IF more THEN 1 ELSE 0
       /\ respSync' = tok
  /\ last' = [kind |-> "list", src |-> Head(canon), cursor |-> syncTok,
              page |-> pageToken, params |-> baseParams(syncTok, now),
              stored |-> stateMem[Head(canon)]]
  /\ pagesFetched' = pagesFetched + 1
  /\ pc' = [pc EXCEPT ![p] = "events"]
  /\ UNCHANGED <<envVars, lockFile, readPid, sawPid, stateMem, canon, syncTok, pageToken,
                 refused, acquired, writers, threw, budget, recovering>>

\* Line 310 rejected with 410: the sync token is no longer valid.
ListGone(p) ==
  /\ pc[p] = "list"
  /\ syncTok # 0
  /\ \E written \in {b \in BOOLEAN : ~b => budget > 0} :
       /\ Handle410(p, written)
       /\ budget' = IF written THEN budget ELSE budget - 1
  /\ last' = [kind |-> "gone", src |-> Head(canon),
              params |-> baseParams(syncTok, now),
              stored |-> stateMem[Head(canon)]]
  /\ UNCHANGED <<target, nextId, now, cfgSources, RESET_ALL, RESET_FOR,
                 universe, served, lockFile, readPid, sawPid,
                 items, respPage, respSync, pagesFetched, shown, refused, acquired, threw,
                 listed>>

\* Line 310 failing with another error: line 477 throws it out of main.
ListError(p) ==
  /\ pc[p] = "list"
  /\ budget > 0
  /\ pc' = [pc EXCEPT ![p] = "finally"]
  /\ threw' = threw \cup {p}
  /\ budget' = budget - 1
  /\ last' = [kind |-> "listError", src |-> Head(canon),
              pending |-> {canon[i] : i \in 2..Len(canon)}]
  /\ UNCHANGED <<envVars, lockFile, readPid, sawPid, runVars, refused, acquired, writers,
                 listed, recovering>>

\* What the events of the target say, whenever they were last written.
Contents(tgt) == {[e EXCEPT !.updated = 0] : e \in tgt}

\* The origin tags in use, and the ids of the events that carry a tag.
Tags(tgt) == {e.origin : e \in tgt} \ {Null}
Tagged(tgt, key) == {e.id : e \in TargetByOrigin(tgt, key)}

\* No run is under way, and one has left main.
Quiet == \A p \in Procs : ~Running(p)
RunCompleted == Quiet /\ \E p \in Procs : pc[p] = "done"

Issued(log, ops) == {i \in 1..Len(log) : log[i].op \in ops}
Rejected(log, ops) == {i \in 1..Len(log) : log[i].op \in ops /\ ~log[i].ok}

\* Lines 314-458 for the first unprocessed item, and the catch of line 465
\* when the iteration throws.
EventStep(p) ==
  /\ pc[p] = "events"
  /\ items # <<>>
  /\ \E ord \in Orders({e.id : e \in target}),
        fl \in IF budget > 0 THEN Faults ELSE {NoFault}, written \in BOOLEAN :
       LET ev == Head(items)
           src == Head(canon)
           key == buildOriginKey(src, ev)
           r == ProcessEvent([tgt |-> target, nid |-> nextId, log |-> <<>>],
                             src, ev, ord, fl, now)
           log == r.w.log
           used == IF fl = NoFault THEN 0 ELSE 1
       IN  /\ r.w.nid <= MaxIds + 1
           /\ ~written => r.thrown = Gone /\ budget - used > 0
           /\ fl # NoFault => Rejected(log, {"insert", "patch", "tag", "delete"}) # {}
                               \/ r.thrown # 0 \/ (fl.titleList /\ TitleSearched(ev))
           /\ target' = r.w.tgt
           /\ nextId' = r.w.nid
           /\ writers' = IF Issued(log, {"insert", "patch", "tag", "delete"}) # {}
                            \/ r.thrown = Gone
                           THEN writers \cup {p} ELSE writers
           /\ budget' = budget - used - (IF written THEN 0 ELSE 1)
           /\ last' = [kind |-> "event", src |-> src, key |-> key, ev |-> ev,
                       status |-> ev.status,
                       tagged |-> {e.id : e \in TargetByOrigin(target, key)},
                       found |-> findByOrigin(target, key, ord),
                       same |-> Contents(target) = Contents(r.w.tgt),
                       matched |-> {e.id : e \in {d \in TargetByOrigin(target, Null) :
                                      buildTitleTimeKey(d) = buildTitleTimeKey(ev)}},
                       log |-> log, thrown |-> r.thrown,
                       limited |-> fl.code = RateLimited,
                       window |-> syncTok = 0, recovering |-> src \in recovering,
                       more |-> Tail(items) # <<>>]
           /\ IF r.thrown = 0
                THEN /\ items' = Tail(items)
                     /\ UNCHANGED <<pc, stateFile, stateMem, canon, syncTok, pageToken,
                                    threw, recovering>>
                ELSE IF r.thrown = Gone
                  THEN /\ Handle410(p, written)
                       /\ UNCHANGED <<items, threw>>
                  ELSE /\ pc' = [pc EXCEPT ![p] = "finally"]
                       /\ threw' = threw \cup {p}
                       /\ UNCHANGED <<items, stateFile, stateMem, canon, syncTok,
                                      pageToken, recovering>>
  /\ UNCHANGED <<now, cfgSources, RESET_ALL, RESET_FOR,
                 universe, served, lockFile, readPid, sawPid, respPage,
                 respSync, pagesFetched, shown, refused, acquired, listed>>

\* Lines 460-464 once every item is processed, then the loop condition.
PageEnd(p) ==
  /\ pc[p] = "events"
  /\ items = <<>>
  /\ pageToken' = respPage
  /\ \E written \in {b \in BOOLEAN : ~b => respSync # 0 /\ budget > 0} :
       /\ IF respSync # 0
            THEN /\ stateMem' = [stateMem EXCEPT ![Head(canon)] = respSync]
                 /\ stateFile' = saveState(stateFile, stateMem', written)
                 /\ writers' = writers \cup {p}
            ELSE UNCHANGED <<stateMem, stateFile, writers>>
       /\ budget' = IF written THEN budget ELSE budget - 1
       /\ last' = [kind |-> "pageEnd", src |-> Head(canon), cursor |-> respSync,
                   written |-> written]
  /\ pc' = [pc EXCEPT ![p] = LoopTo(respPage)]
  /\ canon' = IF respPage # 0 THEN canon ELSE Tail(canon)
  /\ recovering' = IF respPage # 0 \/ syncTok # 0 THEN recovering
                   ELSE recovering \ {Head(canon)}
  /\ UNCHANGED <<target, nextId, now, cfgSources, RESET_ALL, RESET_FOR,
                 universe, served, lockFile, readPid, sawPid,
                 syncTok, items, respPage, respSync, pagesFetched, shown, refused, acquired,
                 threw, listed>>

\* Lines 529-531: finally { await releaseLock(); }; the locals of the run are gone.
MainFinally(p) ==
  /\ pc[p] = "finally"
  /\ lockFile' = releaseLock(lockFile).file
  /\ threw' = IF releaseLock(lockFile).thrown THEN threw \cup {p} ELSE threw
  /\ pc' = [pc EXCEPT ![p] = "done"]
  /\ stateMem' = NoTokens
  /\ canon' = <<>>
  /\ syncTok' = 0
  /\ pageToken' = 0
  /\ items' = <<>>
  /\ respPage' = 0
  /\ respSync' = 0
  /\ pagesFetched' = 0
  /\ shown' = {}
  /\ last' = [kind |-> "finally", absent |-> lockFile = <<>>, file |-> lockFile',
              thrown |-> releaseLock(lockFile).thrown]
  /\ UNCHANGED <<envVars, readPid, sawPid, refused, acquired, writers, budget, listed,
                 recovering>>

\* The clock advances between two runs.
Tick ==
  /\ now < MaxTime
  /\ \A p \in Procs : ~Running(p)
  /\ now' = now + 1
  /\ UNCHANGED <<target, nextId, stateFile, cfgSources, RESET_ALL, RESET_FOR,
                 universe, served, lockFile, pc,
                 readPid, sawPid, runVars, histVars>>

Init ==
  /\ target \in InitTargets
  /\ nextId = 3
  /\ now = 2
  /\ stateFile \in {NoTokens, [NoTokens EXCEPT ![S1] = 1]}
  /\ lockFile = <<>>
  /\ cfgSources = <<Primary, S2>>
  /\ RESET_ALL = FALSE
  /\ RESET_FOR = <<>>
  /\ universe \in {[s \in CanonIds |-> IF s = S1 THEN U ELSE {}] : U \in Universes}
  /\ served = <<>>
  /\ pc = [p \in Procs |-> "idle"]
  /\ readPid = [p \in Procs |-> 0]
  /\ sawPid = [p \in Procs |-> -1]
  /\ stateMem = NoTokens
  /\ canon = <<>>
  /\ syncTok = 0
  /\ pageToken = 0
  /\ items = <<>>
  /\ respPage = 0
  /\ respSync = 0
  /\ pagesFetched = 0
  /\ shown = {}
  /\ refused = {}
  /\ acquired = {}
  /\ writers = {}
  /\ threw = {}
  /\ budget = MaxFaults
  /\ listed = 0
  /\ recovering = {}
  /\ last = Idle("init")

Next ==
  \/ \E p \in Procs :
       \/ MainStart(p)
       \/ LoadAndResolve(p)
       \/ SourceStart(p)
       \/ ListOk(p)
       \/ ListGone(p)
       \/ ListError(p)
       \/ EventStep(p)
       \/ PageEnd(p)
       \/ MainFinally(p)
  \/ Tick

Spec == Init /\ [][Next]_vars

(***************************************************************************)
(* acquireLock step by step, lines 68-97: each file system call and the     *)
(* liveness probe is a step of its own, so that the calls of several        *)
(* processes interleave. The work done under the lock is one step.          *)
(***************************************************************************)
otherVars ==
  <<target, nextId, now, stateFile, cfgSources, RESET_ALL, RESET_FOR,
                 universe, served, stateMem, canon,
    syncTok, pageToken, items, respPage, respSync, pagesFetched, shown, writers, threw,
    budget, listed, recovering, last>>

\* The processes that race for the lock: one more than the runs of main.
LockProcs == 1..(MaxRuns + 1)

\* Line 70: fs.writeFile(LOCK_FILE, pid, { flag: 'wx' }); EEXIST leads to line 74.
AcqWrite(p) ==
  /\ pc[p] \in {"idle", "retry"}
  /\ IF lockFile = <<>>
       THEN /\ lockFile' = <<p>>
            /\ pc' = [pc EXCEPT ![p] = "held"]
            /\ acquired' = acquired \cup {p}
            /\ UNCHANGED sawPid
       ELSE /\ pc' = [pc EXCEPT ![p] = "read"]
            /\ sawPid' = IF pc[p] = "idle" THEN [sawPid EXCEPT ![p] = lockFile[1]]
                         ELSE sawPid
            /\ UNCHANGED <<lockFile, acquired>>
  /\ UNCHANGED <<readPid, refused, otherVars>>

\* Lines 74-75: fs.readFile(LOCK_FILE); a file that is missing or may not be
\* read leads to the catch of line 88.
AcqRead(p) ==
  /\ pc[p] = "read"
  /\ IF lockFile = <<>> \/ Denied(lockFile)
       THEN /\ pc' = [pc EXCEPT ![p] = "unlink2"]
            /\ UNCHANGED readPid
       ELSE /\ pc' = [pc EXCEPT ![p] = "probe"]
            /\ readPid' = [readPid EXCEPT ![p] = lockFile[1]]
  /\ UNCHANGED <<lockFile, sawPid, refused, acquired, otherVars>>

\* Lines 78-82: process.kill(pid, 0); return false when that process lives.
AcqProbe(p) ==
  /\ pc[p] = "probe"
  /\ IF Alive(readPid[p])
       THEN /\ pc' = [pc EXCEPT ![p] = "skipped"]
            /\ refused' = refused \cup {p}
       ELSE /\ pc' = [pc EXCEPT ![p] = "unlink1"]
            /\ UNCHANGED refused
  /\ UNCHANGED <<lockFile, readPid, sawPid, acquired, otherVars>>

\* Lines 83-86: fs.unlink(LOCK_FILE), then acquireLock() again; an unlink
\* that fails throws into the catch of line 88.
AcqUnlink1(p) ==
  /\ pc[p] = "unlink1"
  /\ lockFile' = unlink(lockFile).file
  /\ pc' = [pc EXCEPT ![p] = IF unlink(lockFile).code = "ok" THEN "retry" ELSE "unlink2"]
  /\ UNCHANGED <<readPid, sawPid, refused, acquired, otherVars>>

\* Lines 88-92: fs.unlink(LOCK_FILE).catch(() => {}), then acquireLock() again.
AcqUnlink2(p) ==
  /\ pc[p] = "unlink2"
  /\ lockFile' = unlink(lockFile).file
  /\ pc' = [pc EXCEPT ![p] = "retry"]
  /\ UNCHANGED <<readPid, sawPid, refused, acquired, otherVars>>

\* Lines 496-528: the body of main under the lock.
LockWork(p) ==
  /\ pc[p] = "held"
  /\ pc' = [pc EXCEPT ![p] = "finally"]
  /\ writers' = writers \cup {p}
  /\ UNCHANGED <<target, nextId, now, stateFile, cfgSources, RESET_ALL, RESET_FOR,
                 universe, served, stateMem,
                 canon, syncTok, pageToken, items, respPage, respSync, pagesFetched, shown,
                 threw, budget, listed, recovering, last, lockFile, readPid, sawPid,
                 refused, acquired>>

\* Lines 529-531 and 99-107.
LockRelease(p) ==
  /\ pc[p] = "finally"
  /\ lockFile' = releaseLock(lockFile).file
  /\ threw' = IF releaseLock(lockFile).thrown THEN threw \cup {p} ELSE threw
  /\ pc' = [pc EXCEPT ![p] = "done"]
  /\ last' = [kind |-> "finally", absent |-> lockFile = <<>>, file |-> lockFile',
              thrown |-> releaseLock(lockFile).thrown]
  /\ UNCHANGED <<envVars, runVars, readPid, sawPid, refused, acquired, writers, budget,
                 listed, recovering>>

\* The process is killed while it holds the lock: its lock file stays.
LockCrash(p) ==
  /\ pc[p] = "held"
  /\ pc' = [pc EXCEPT ![p] = "dead"]
  /\ UNCHANGED <<lockFile, readPid, sawPid, refused, acquired, otherVars>>

\* No lock file, or the lock file of a process (pid 0) that is gone, which
\* the processes may delete or not.
LockInit ==
  /\ target = {}
  /\ nextId = 1
  /\ now = 1
  /\ stateFile = NoTokens
  /\ lockFile \in {<<>>, <<0>>, <<0, "denied">>}
  /\ cfgSources = <<S1, S2>>
  /\ RESET_ALL = FALSE
  /\ RESET_FOR = <<>>
  /\ universe = [s \in CanonIds |-> {}]
  /\ served = <<>>
  /\ pc = [p \in LockProcs |-> "idle"]
  /\ readPid = [p \in LockProcs |-> 0]
  /\ sawPid = [p \in LockProcs |-> -1]
  /\ stateMem = NoTokens
  /\ canon = <<>>
  /\ syncTok = 0
  /\ pageToken = 0
  /\ items = <<>>
  /\ respPage = 0
  /\ respSync = 0
  /\ pagesFetched = 0
  /\ shown = {}
  /\ refused = {}
  /\ acquired = {}
  /\ writers = {}
  /\ threw = {}
  /\ budget = 0
  /\ listed = 0
  /\ recovering = {}
  /\ last = Idle("init")

LockNext ==
  \E p \in LockProcs :
    \/ AcqWrite(p)
    \/ AcqRead(p)
    \/ AcqProbe(p)
    \/ AcqUnlink1(p)
    \/ AcqUnlink2(p)
    \/ LockWork(p)
    \/ LockRelease(p)
    \/ LockCrash(p)

LockSpec == LockInit /\ [][LockNext]_vars

\* A process inside acquireLock goes on: the continuation of every awaited
\* file system call is run.
AcqStep(p) ==
  AcqWrite(p) \/ AcqRead(p) \/ AcqProbe(p) \/ AcqUnlink1(p) \/ AcqUnlink2(p)

LockLiveSpec == LockSpec /\ \A p \in LockProcs : WF_vars(AcqStep(p))

\* The process has called acquireLock, which has not returned.
InAcquire(p) == pc[p] \in {"read", "probe", "unlink1", "unlink2", "retry"}

\* The processes for which acquireLock returned true and releaseLock has not run.
Holders == {p \in DOMAIN pc : pc[p] \in {"held", "finally"}}

\* C2 (run-lock mutual exclusion): at any time at most one live process has
\* acquired the lock and not yet released it.
C2_OneHolder == Cardinality(Holders) <= 1

\* C3 (lock exclusion): a run that found the lock file naming a process
\* which is alive and still holds the lock has not acquired the lock and
\* has written nothing.
C3_LiveLockKeepsOthersOut ==
  \A p \in DOMAIN pc :
    (sawPid[p] \in Holders \ {p}) => p \notin acquired /\ p \notin writers

(***************************************************************************)
(* The same page processed by two runs in a row: the source lists the page  *)
(* `served` whenever it is asked, no remote call fails and the clock         *)
(* stands still.                                                            *)
(***************************************************************************)
\* Line 310 answered with the page of the unchanged source.
ListServed(p) ==
  /\ pc[p] = "list"
  /\ pagesFetched = 0
  /\ shown = {}
  /\ items' = served
  /\ respPage' = 0
  /\ respSync' \in Tokens
  /\ last' = [kind |-> "list", src |-> Head(canon), cursor |-> syncTok,
              page |-> pageToken, params |-> baseParams(syncTok, now),
              stored |-> stateMem[Head(canon)]]
  /\ pagesFetched' = 1
  /\ shown' = {served[i].id : i \in 1..Len(served)}
  /\ pc' = [pc EXCEPT ![p] = "events"]
  /\ UNCHANGED <<envVars, lockFile, readPid, sawPid, stateMem, canon, syncTok, pageToken,
                 refused, acquired, writers, threw, budget, listed, recovering>>

PageInit ==
  /\ target \in InitTargets \cup {DupTarget, DescribedTarget}
  /\ nextId = 3
  /\ now \in 2..MaxTime
  /\ stateFile = NoTokens
  /\ lockFile = <<>>
  /\ cfgSources = <<S1>>
  /\ RESET_ALL = FALSE
  /\ RESET_FOR = <<>>
  /\ universe = [s \in CanonIds |-> {}]
  /\ served \in Pages(AllEvents, now) \ {<<>>}
  /\ pc = [p \in Procs |-> "idle"]
  /\ readPid = [p \in Procs |-> 0]
  /\ sawPid = [p \in Procs |-> -1]
  /\ stateMem = NoTokens
  /\ canon = <<>>
  /\ syncTok = 0
  /\ pageToken = 0
  /\ items = <<>>
  /\ respPage = 0
  /\ respSync = 0
  /\ pagesFetched = 0
  /\ shown = {}
  /\ refused = {}
  /\ acquired = {}
  /\ writers = {}
  /\ threw = {}
  /\ budget = 0
  /\ listed = 0
  /\ recovering = {}
  /\ last = Idle("init")

PageNext ==
  \E p \in Procs :
    \/ MainStart(p)
    \/ LoadAndResolve(p)
    \/ SourceStart(p)
    \/ ListServed(p)
    \/ EventStep(p)
    \/ PageEnd(p)
    \/ MainFinally(p)

PageSpec == PageInit /\ [][PageNext]_vars

\* The first run has processed the page and left main; the second has not begun.
FirstPassDone == pc[1] = "done" /\ 1 \in acquired \ threw /\ pc[2] = "idle"

\* The second run is processing the page the first one processed.
SecondPass == pc[1] = "done" /\ 1 \in acquired \ threw /\ pc[2] = "events"

\* C5 (idempotence): in the second pass over the unchanged page no event is
\* inserted, none is deleted, and what the target events say stays as it was.
C5_SecondPassChangesNothing ==
  (SecondPass /\ last.kind = "event") =>
    /\ Issued(last.log, {"insert", "delete"}) = {}
    /\ last.same

\* C7 (recurrence disambiguation): the keys of a series master and of its
\* exception differ, and after a run over a page that lists both, the target
\* holds a mirror tagged with the master's key and another one tagged with
\* the exception's key.
C7_MasterAndExceptionMirrored ==
  /\ KeyMaster # KeyException
  /\ (FirstPassDone
        /\ (\E i, j \in 1..Len(served) :
              /\ served[i].status = "confirmed" /\ served[i].originalStartTime = Null
              /\ served[j].status = "confirmed" /\ served[j].originalStartTime # Null)) =>
       \E m \in Tagged(target, KeyMaster), x \in Tagged(target, KeyException) : m # x

(***************************************************************************)
(* Properties of the sync engine.                                          *)
(***************************************************************************)

\* C1 (uniqueness): once a run has completed, and no remote call has failed,
\* every identity key is the origin tag of at most one event of the target.
C1_OneMirrorPerKey ==
  (RunCompleted /\ budget = MaxFaults) =>
    \A key \in Tags(target) : Cardinality(Tagged(target, key)) <= 1

\* C4 (guaranteed release): once a run that acquired the lock has left main,
\* by return or by throw, the lock file does not hold its pid.
C4_ReleasedOnExit ==
  \A p \in acquired : pc[p] = "done" => lockFile # <<p>>

\* A run that acquired the lock threw out of main and has left it.
C4_Witness ==
  \E p \in acquired \cap threw : pc[p] = "done" /\ lockFile = <<>>

\* C6 (cancellation deletes): after a cancelled source event is processed,
\* with no remote call failing, no event of the target carries its key, and
\* the run goes on with the page.
C6_CancelledLeavesNoMirror ==
  (last.kind = "event" /\ last.status = "cancelled" /\ budget = MaxFaults) =>
    /\ Tagged(target, last.key) = {}
    /\ last.thrown = 0
    /\ \E p \in Procs : pc[p] = "events"

\* C8 (stale-cursor restart): right after a source list call is rejected
\* with 410, the run is about to list the same source again, with no sync
\* token and no page token.
C8_RestartsSameSource ==
  last.kind = "gone" =>
    /\ \E p \in Procs : pc[p] = "list"
    /\ canon # <<>> /\ Head(canon) = last.src
    /\ syncTok = 0 /\ pageToken = 0

\* C9 (stale-cursor consistency): while a source whose cursor was rejected is
\* fetched again by time window, with no remote call failing, processing an
\* event whose key already has a mirror does not raise the number of events
\* carrying that key.
C9_RecoveryAddsNoMirror ==
  (last.kind = "event" /\ last.recovering /\ last.window /\ budget = MaxFaults
     /\ last.tagged # {}) =>
    Cardinality(Tagged(target, last.key)) <= Cardinality(last.tagged)

\* C10 (per-event failure containment): after an event whose insert or patch
\* was rejected, the run is still working on the same page of the same
\* source.
C10_WriteFailureContained ==
  (last.kind = "event" /\ Rejected(last.log, {"insert", "patch"}) # {}) =>
    /\ \E p \in Procs : pc[p] = "events"
    /\ canon # <<>> /\ Head(canon) = last.src

\* C11 (per-source failure containment): right after the resolution of a
\* source id or the list call of a source has failed with an error other
\* than 410, the run is about to sync the configured sources that are still
\* to be synced.
C11_OtherSourcesStillSynced ==
  ((last.kind = "listError" \/ (last.kind = "load" /\ last.failed))
     /\ last.pending # {}) =>
    /\ \E p \in Procs : pc[p] \in {"source", "list"}
    /\ last.pending \subseteq {canon[i] : i \in 1..Len(canon)}

\* C12 (cursor durability at page boundaries): when a run has left a page
\* whose list response carried a new sync token and is about to send the
\* next list request or to start the next source, the state file holds that
\* token for the source of the page.
C12_CursorDurableAtPageBoundary ==
  (respSync # 0 /\ last.kind \in {"event", "pageEnd"}
     /\ \E p \in Procs : pc[p] \in {"list", "source"}) =>
    stateFile[last.src] = respSync

\* C13 (mirror completeness): after a run in which no call failed, every
\* source event the run was shown as confirmed has an event in the target
\* whose origin tag is the identity key of that source event.
C13_EveryActiveEventMirrored ==
  FirstPassDone =>
    \A i \in 1..Len(served) :
      served[i].status = "confirmed" =>
        Tagged(target, buildOriginKey(S1, served[i])) # {}

\* C14 (duplicate reconciliation by detail): when a source event is
\* reconciled while the target holds two untagged events with its title and
\* start/end and with equal stamps, event 1 with a description and event 2
\* without, event 1 is still there with its description afterwards and
\* event 2 is gone, whatever the stamp of the source event.
C14_KeepsDescribedDuplicate ==
  (last.kind = "event" /\ last.status = "confirmed" /\ last.matched = {1, 2}) =>
    /\ \E e \in target : e.id = 1 /\ e.description = Str("d")
    /\ \A e \in target : e.id # 2

\* The ids of the events that the writes of the last event patched.
Patched == {last.log[i].id : i \in {j \in 1..Len(last.log) :
                                     last.log[j].op = "patch" /\ last.log[j].ok}}

\* C15 (full overwrite on update): after an event of the target is patched
\* from a source event, its title, description, location, start, end,
\* recurrence and visibility are those of the source event, an absent field
\* included, and its origin tag is the identity key.
C15_UpdateOverwritesEveryField ==
  (last.kind = "event" /\ last.thrown = 0) =>
    \A e \in target :
      e.id \in Patched =>
        /\ e.summary = last.ev.summary
        /\ e.description = last.ev.description
        /\ e.location = last.ev.location
        /\ e.start = last.ev.start
        /\ e.end = last.ev.end
        /\ e.recurrence = last.ev.recurrence
        /\ e.visibility = last.ev.visibility
        /\ e.origin = last.key

(***************************************************************************)
(* buildOriginKey on its own: two source ids and two events are drawn, and  *)
(* one step builds the key of each.                                         *)
(***************************************************************************)
\* The fields buildOriginKey reads.  An iCalUID is absent, Google's, plain,
\* or one that holds a ':'; the original start is absent, a date-time or a
\* date.
KeyEvents ==
  {[id |-> id, iCalUID |-> uid, originalStartTime |-> orig] :
     id \in {Str("e1"), Str("u1")},
     uid \in {Null, <<"u1">>, <<"u1", GoogleSuffix>>, <<"u1", ":", "T1">>},
     orig \in {Null, <<Str("T1"), Null>>, <<Null, Str("T1")>>, <<Null, Str("T2")>>}}

KeyInit ==
  /\ target = {}
  /\ nextId = 1
  /\ now = 1
  /\ stateFile = NoTokens
  /\ lockFile = <<>>
  /\ cfgSources = <<>>
  /\ RESET_ALL = FALSE
  /\ RESET_FOR = <<>>
  /\ universe = [s \in CanonIds |-> {}]
  /\ served = <<>>
  /\ pc = [p \in Procs |-> "idle"]
  /\ readPid = [p \in Procs |-> 0]
  /\ sawPid = [p \in Procs |-> -1]
  /\ stateMem = NoTokens
  /\ canon \in [1..2 -> CanonIds]
  /\ syncTok = 0
  /\ pageToken = 0
  /\ items \in [1..2 -> KeyEvents]
  /\ respPage = 0
  /\ respSync = 0
  /\ pagesFetched = 0
  /\ shown = {}
  /\ refused = {}
  /\ acquired = {}
  /\ writers = {}
  /\ threw = {}
  /\ budget = 0
  /\ listed = 0
  /\ recovering = {}
  /\ last = Idle("init")

\* Line 317, for the event items[1] of source canon[1] and for items[2] of canon[2].
BuildKeys ==
  /\ last.kind = "init"
  /\ last' = [kind |-> "keys", a |-> buildOriginKey(canon[1], items[1]),
              b |-> buildOriginKey(canon[2], items[2])]
  /\ UNCHANGED <<envVars, runVars, lockFile, pc, readPid, sawPid, refused, acquired,
                 writers, threw, budget, listed, recovering>>

KeySpec == KeyInit /\ [][BuildKeys]_vars

\* What the key is to stand for: the canonical source id, the normalized
\* iCalUID (the local id when the event has none) and the original start
\* ("" when the event has none).
KeyTriple(srcCanonicalId, ev) ==
  <<srcCanonicalId,
    normalizeICalUID(IF ev.iCalUID # Null THEN ev.iCalUID ELSE ev.id),
    isoOrDate(DateTimeOf(ev.originalStartTime), DateOf(ev.originalStartTime))>>

\* C16 (identity key injectivity): two events get the same key if and only
\* if they have the same canonical source id, the same normalized identifier
\* and the same original start.
C16_KeyInjective ==
  last.kind = "keys" =>
    (last.a = last.b <=> KeyTriple(canon[1], items[1]) = KeyTriple(canon[2], items[2]))

(***************************************************************************)
(* Runs started with reset directives: a cursor is stored for s1, perhaps   *)
(* for s2, and no call fails.                                               *)
(***************************************************************************)
ResetInit ==
  /\ target = {}
  /\ nextId = 3
  /\ now = 2
  /\ stateFile \in {[NoTokens EXCEPT ![S1] = 1], [s \in CanonIds |-> 1]}
  /\ lockFile = <<>>
  /\ cfgSources = <<Primary, S2>>
  /\ RESET_ALL \in BOOLEAN
  /\ RESET_FOR \in {<<>>, <<Primary>>, <<S1>>, <<S2>>, <<<<" ", "s2">>, <<>>>>,
                     <<Primary, S2>>}
  /\ universe \in {[s \in CanonIds |-> IF s = S1 THEN U ELSE {}] : U \in Universes}
  /\ served = <<>>
  /\ pc = [p \in Procs |-> "idle"]
  /\ readPid = [p \in Procs |-> 0]
  /\ sawPid = [p \in Procs |-> -1]
  /\ stateMem = NoTokens
  /\ canon = <<>>
  /\ syncTok = 0
  /\ pageToken = 0
  /\ items = <<>>
  /\ respPage = 0
  /\ respSync = 0
  /\ pagesFetched = 0
  /\ shown = {}
  /\ refused = {}
  /\ acquired = {}
  /\ writers = {}
  /\ threw = {}
  /\ budget = 0
  /\ listed = 0
  /\ recovering = {}
  /\ last = Idle("init")

ResetNext ==
  \E p \in Procs :
    \/ MainStart(p)
    \/ LoadAndResolve(p)
    \/ SourceStart(p)
    \/ ListOk(p)
    \/ ListGone(p)
    \/ EventStep(p)
    \/ PageEnd(p)
    \/ MainFinally(p)

ResetSpec == ResetInit /\ [][ResetNext]_vars

\* The run was started with reset-all, or RESET_FOR names a configured
\* source, as it is written in SOURCE_IDS, whose canonical id is src.
ResetNamed(src) ==
  \/ RESET_ALL
  \/ \E i \in 1..Len(cfgSources) :
       cfgSources[i] \in ResetIds /\ resolveCanonicalId(cfgSources[i]) = src

\* C17 (reset directives): the first list request for a source that a reset
\* directive names carries no stored cursor: it is not sent with a sync
\* token, and so it is not rejected with 410 either.
C17_ResetDropsCursor ==
  (last.kind \in {"list", "gone"} /\ ResetNamed(last.src)) =>
    /\ last.kind = "list"
    /\ last.page = 0 => last.cursor = 0

\* C18 (idempotent release): when releaseLock has run with no lock file in
\* place, there is still no lock file and releaseLock has not thrown; and a
\* second releaseLock after any release changes nothing and does not throw.
C18_ReleaseIdempotent ==
  last.kind = "finally" =>
    /\ last.absent => last.file = <<>> /\ ~last.thrown
    /\ releaseLock(last.file).file = last.file
    /\ ~releaseLock(last.file).thrown

\* releaseLock has run while the lock file was absent.
C18_Witness == last.kind = "finally" /\ last.absent

\* C19 (bounded retries): a call of acquireLock returns, true or false,
\* also when the lock file can neither be read nor deleted.
C19_AcquireReturns == \A p \in LockProcs : InAcquire(p) ~> ~InAcquire(p)

\* C20 (rate-limit handling): after an event one of whose target writes was
\* refused with the rate-limit status, that write has been issued a second
\* time, no error has left the event's iteration, and the run is still
\* working on the page of the same source.
C20_RateLimitedWriteRetriedOnce ==
  (last.kind = "event" /\ last.limited) =>
    /\ \E op \in {"insert", "patch"} :
         /\ Rejected(last.log, {op}) # {}
         /\ Cardinality(Issued(last.log, {op})) = 2
    /\ last.thrown = 0
    /\ \E p \in Procs : pc[p] = "events"
    /\ canon # <<>> /\ Head(canon) = last.src

\* C21 (layered resolution order): the first lookup made for a source event
\* that is not cancelled is the lookup by origin tag, and when an event of
\* the target already carries the event's key, neither the lookup by
\* iCalUID nor the title+time search is made.
C21_OriginLookupFirst ==
  (last.kind = "event" /\ last.status = "confirmed" /\ last.log # <<>>) =>
    /\ last.log[1].op = "byOrigin"
    /\ last.tagged # {} => Issued(last.log, {"byICal", "byTitle"}) = {}

\* validDuplicates as a set: the events the title+time search returns for ev
\* that lack the origin tag key (lines 349-356).
Candidates(tgt, ev, key) ==
  IF ~TitleSearched(ev) THEN {}
  ELSE {d \in TargetByWindow(tgt, StartOf(ev), StartOf(ev) + SearchDays, ev.summary) :
          /\ buildTitleTimeKey(d) = buildTitleTimeKey(ev)
          /\ (d.origin = Null \/ d.origin = <<>> \/ d.origin # key)}

\* The candidates that beat the source event and are beaten by no other
\* candidate.
Winners(tgt, ev, key) ==
  {d \in Candidates(tgt, ev, key) :
     /\ isEventNewer(d, CurrentEvent(ev, key))
     /\ \A c \in Candidates(tgt, ev, key) : ~isEventNewer(c, d)}

\* C22 (losing source defers): when a candidate duplicate beats the confirmed
\* source event that a run processes, the run inserts nothing and that
\* duplicate is in the target afterwards exactly as it was before, fields,
\* origin tag and last-modified stamp.
C22_WinnerLeftAsIs ==
  [][(/\ items # <<>>
      /\ items' = Tail(items)
      /\ Head(items).status = "confirmed"
      /\ canon # <<>>)
     => \A d \in Winners(target, Head(items), buildOriginKey(Head(canon), Head(items))) :
          d \in target' /\ nextId' = nextId]_vars

\* What the duplicate loop of lines 358-392 decides for ev when the service
\* lists the target in the order ord: the id of eventToUpdate (0: null) and
\* the ids it asks the service to delete.
Resolution(tgt, ev, key, ord) ==
  LET pass == TitleTimePass([tgt |-> tgt, nid |-> 0, log |-> <<>>], ev, key, ord, NoFault)
  IN  [upd |-> pass.upd,
       deleted |-> {pass.w.log[i].id : i \in Issued(pass.w.log, {"delete"})}]

\* C23 (order-independent duplicate resolution): when a run processes a
\* confirmed source event, the candidate duplicates it deletes and the
\* candidate it keeps for the update are the same for every order in which
\* the service may list the candidates.
C23_OrderIndependent ==
  [][(/\ items # <<>>
      /\ items' = Tail(items)
      /\ Head(items).status = "confirmed"
      /\ canon # <<>>)
     => \A o1, o2 \in Orders({e.id : e \in target}) :
          Resolution(target, Head(items), buildOriginKey(Head(canon), Head(items)), o1)
            = Resolution(target, Head(items), buildOriginKey(Head(canon), Head(items)), o2)]_vars

\* C24 (race-safe create): while one source event is processed at most one
\* insert is issued; the request made just before it is the lookup by origin
\* tag, made after the title+time search, and no event of the target carried
\* the key, so that lookup returned no mirror; and when the insert fails and
\* the lookups that follow find an event, a patch of that event follows.
C24_RaceSafeCreate ==
  last.kind = "event" =>
    LET log == last.log
        ins == Issued(log, {"insert"})
    IN  /\ Cardinality(ins) <= 1
        /\ \A i \in ins :
             /\ i > 1
             /\ log[i - 1].op = "byOrigin"
             /\ last.tagged = {}
             /\ \A j \in Issued(log, {"byTitle"}) : j < i - 1
             /\ \A t \in Issued(log, {"tag"}) :
                  /\ t > i
                  /\ ~log[i].ok
                  /\ \E k \in Issued(log, {"patch"}) : k > t /\ log[k].id = log[t].id

\* An insert was rejected, the lookup by iCalUID that followed found an event,
\* and the event was patched.
C24_Witness ==
  /\ last.kind = "event"
  /\ Rejected(last.log, {"insert"}) # {}
  /\ \E t \in Issued(last.log, {"tag"}), k \in Issued(last.log, {"patch"}) :
       k > t /\ last.log[k].id = last.log[t].id /\ last.log[k].ok

\* C25 (extras are reconciled): when a run has looked up by origin tag a key
\* that more than one event of the target carried, and the event was
\* processed without an error, one event carries the key afterwards.
C25_ExtrasDeleted ==
  (/\ last.kind = "event"
   /\ last.thrown = 0
   /\ Issued(last.log, {"byOrigin"}) # {}
   /\ Cardinality(last.tagged) > 1)
  => Cardinality(Tagged(target, last.key)) = 1

(***************************************************************************)
(* The standalone dedupe tool (dist/dedupeTarget.js) and findByOrigin, on   *)
(* target calendars of up to MaxMirrors events that carry one of two origin *)
(* tags or none and were created at any time.                               *)
(***************************************************************************)
\* events.sort((a, b) => created(a) - created(b)): a stable sort.
RECURSIVE InsertSorted(_, _)
InsertSorted(e, sorted) ==
  IF sorted = <<>> THEN <<e>>
  ELSE IF e.created < Head(sorted).created THEN <<e>> \o sorted
  ELSE <<Head(sorted)>> \o InsertSorted(e, Tail(sorted))

RECURSIVE SortByCreated(_)
SortByCreated(events) ==
  IF events = <<>> THEN <<>>
  ELSE InsertSorted(events[Len(events)],
                    SortByCreated(SubSeq(events, 1, Len(events) - 1)))

\* groups[origin]: the events that carry the tag, in the order listed.
DedupeGroup(tgt, origin, ord) == InOrder(TargetByOrigin(tgt, origin), ord)

\* The tags dedupe() works on: if (events.length <= 1) continue;
DedupeOrigins(tgt) ==
  {o \in Tags(tgt) \ {<<>>} : Cardinality(TargetByOrigin(tgt, o)) > 1}

\* const keep = sorted[0]
DedupeKeep(tgt, origin, ord) == SortByCreated(DedupeGroup(tgt, origin, ord))[1]

\* dedupe(): the calendar it leaves.  dry is DRY_RUN; fails holds the ids of
\* the events whose delete is rejected, after the retry if there is one.
dedupe(tgt, ord, dry, fails) ==
  {e \in tgt :
     \/ dry
     \/ e.id \in fails
     \/ e.origin \notin DedupeOrigins(tgt)
     \/ e.id = DedupeKeep(tgt, e.origin, ord).id}

\* An event of the target with the tag and the creation time of shape.
Mirror(id, shape) ==
  [TargetEvent(id, shape.origin, Str("A"), Null, <<"m", ToString(id)>>, shape.created)
     EXCEPT !.created = shape.created]

MirrorShapes == [origin : {Null, KeyMaster, KeyException}, created : 1..MaxTime]

DedupeInit ==
  /\ target \in {{Mirror(i, shape[i]) : i \in ids} :
                   ids \in SUBSET (1..MaxMirrors),
                   shape \in [1..MaxMirrors -> MirrorShapes]}
  /\ nextId = MaxMirrors + 1
  /\ now = MaxTime
  /\ stateFile = NoTokens
  /\ lockFile = <<>>
  /\ cfgSources = <<>>
  /\ RESET_ALL = FALSE
  /\ RESET_FOR = <<>>
  /\ universe = [s \in CanonIds |-> {}]
  /\ served = <<>>
  /\ pc = [p \in Procs |-> "idle"]
  /\ readPid = [p \in Procs |-> 0]
  /\ sawPid = [p \in Procs |-> -1]
  /\ stateMem = NoTokens
  /\ canon = <<>>
  /\ syncTok = 0
  /\ pageToken = 0
  /\ items = <<>>
  /\ respPage = 0
  /\ respSync = 0
  /\ pagesFetched = 0
  /\ shown = {}
  /\ refused = {}
  /\ acquired = {}
  /\ writers = {}
  /\ threw = {}
  /\ budget = 0
  /\ listed = 0
  /\ recovering = {}
  /\ last = Idle("init")

\* findByOrigin (onewaySync.ts lines 215-234) called for a key.
Lookup ==
  /\ \E key \in {KeyMaster, KeyException}, ord \in Orders({e.id : e \in target}) :
       last' = [kind |-> "found", key |-> key, ord |-> ord,
                id |-> findByOrigin(target, key, ord)]
  /\ UNCHANGED <<envVars, runVars, lockFile, pc, readPid, sawPid, refused, acquired,
                 writers, threw, budget, listed, recovering>>

\* One run of the dedupe tool.
DedupeRun ==
  /\ \E ord \in Orders({e.id : e \in target}), dry \in BOOLEAN,
        fails \in {{}} \cup {{e.id} : e \in target} :
       /\ target' = dedupe(target, ord, dry, fails)
       /\ last' = [kind |-> "dedupe", ord |-> ord, before |-> target,
                   keep |-> [o \in DedupeOrigins(target) |-> DedupeKeep(target, o, ord).id]]
  /\ UNCHANGED <<nextId, now, stateFile, cfgSources, RESET_ALL, RESET_FOR, universe,
                 served, runVars, lockFile, pc, readPid, sawPid, refused, acquired,
                 writers, threw, budget, listed, recovering>>

DedupeNext == Lookup \/ DedupeRun

DedupeSpec == DedupeInit /\ [][DedupeNext]_vars

\* The least creation time among the events of tgt tagged key.
Oldest(tgt, key) ==
  {e.id : e \in {d \in TargetByOrigin(tgt, key) :
                   \A c \in TargetByOrigin(tgt, key) : d.created <= c.created}}

C27_CursorHeldAfterFailedWrite ==
  [][(/\ last.kind = "event"
      /\ Rejected(last.log, {"delete", "insert", "patch"}) # {})
     => ~(/\ last'.kind = "pageEnd"
          /\ last'.src = last.src
          /\ last'.cursor # 0
          /\ last'.written
          /\ stateFile'[last.src] = last'.cursor)]_vars

\* C28 (stale-lock reclaim and live-holder refusal): a call of acquireLock
\* that deletes the lock file deletes a record naming a process that is not
\* alive.
C28_LiveRecordNotDeleted ==
  [][\A p \in LockProcs :
       (/\ pc[p] \in {"unlink1", "unlink2"}
        /\ pc'[p] # pc[p]
        /\ lockFile # <<>>
        /\ lockFile' = <<>>)
       => ~Alive(lockFile[1])]_vars

\* C29 (cancelled event with an untagged mirror): when a run processes a
\* cancelled source event whose key no event of the target carries while
\* events of the target, all without origin tag, have its iCalUID, the lookup
\* by iCalUID is made and one of these events is gone from the target
\* afterwards.
C29_CancelledFoundByICal ==
  [][(/\ items # <<>>
      /\ items' = Tail(items)
      /\ canon # <<>>
      /\ Head(items).status = "cancelled"
      /\ Tagged(target, buildOriginKey(Head(canon), Head(items))) = {}
      /\ TargetByICal(target, Head(items).iCalUID) # {}
      /\ \A e \in TargetByICal(target, Head(items).iCalUID) : e.origin = Null)
     => /\ last'.kind = "event"
        /\ Issued(last'.log, {"byICal"}) # {}
        /\ \E e \in TargetByICal(target, Head(items).iCalUID) : e \notin target']_vars

(***************************************************************************)
(* The re-resolve of lines 416-417, findByOrigin and then                   *)
(* findByICalAndBackfill, for one source event on target calendars of up    *)
(* to MaxMirrors events that share its iCalUID or not, are instances of a   *)
(* series or not, and carry an origin tag or none.                          *)
(***************************************************************************)
SharedShapes ==
  [iCalUID : {<<"u1", GoogleSuffix>>, <<"x">>}, originalStartTime : {Null, T1, T2},
   origin : {Null, KeyException}]

Shared(id, shape) ==
  [TargetEvent(id, shape.origin, Str("A"), Null, shape.iCalUID, 1)
     EXCEPT !.originalStartTime = shape.originalStartTime]

\* The source event: a series master, an exception of it, or an event that
\* has no iCalUID.
BackfillEvents ==
  {SourceEvent(Null, "confirmed", Str("A"), 1),
   SourceEvent(T1, "confirmed", Str("A"), 1),
   [SourceEvent(Null, "confirmed", Str("A"), 1) EXCEPT !.iCalUID = Null]}

BackfillInit ==
  /\ target \in {{Shared(i, shape[i]) : i \in ids} :
                   ids \in SUBSET (1..MaxMirrors),
                   shape \in [1..MaxMirrors -> SharedShapes]}
  /\ nextId = MaxMirrors + 1
  /\ now = 2
  /\ stateFile = NoTokens
  /\ lockFile = <<>>
  /\ cfgSources = <<>>
  /\ RESET_ALL = FALSE
  /\ RESET_FOR = <<>>
  /\ universe = [s \in CanonIds |-> {}]
  /\ served = <<>>
  /\ pc = [p \in Procs |-> "idle"]
  /\ readPid = [p \in Procs |-> 0]
  /\ sawPid = [p \in Procs |-> -1]
  /\ stateMem = NoTokens
  /\ canon = <<S1>>
  /\ syncTok = 0
  /\ pageToken = 0
  /\ items \in {<<ev>> : ev \in BackfillEvents}
  /\ respPage = 0
  /\ respSync = 0
  /\ pagesFetched = 0
  /\ shown = {}
  /\ refused = {}
  /\ acquired = {}
  /\ writers = {}
  /\ threw = {}
  /\ budget = 0
  /\ listed = 0
  /\ recovering = {}
  /\ last = Idle("init")

\* Lines 416-417: mirror = await findByOrigin(...);
\* if (!mirror) mirror = await findByICalAndBackfill(...).
ReResolve ==
  /\ last.kind = "init"
  /\ \E ord \in Orders({e.id : e \in target}), backfill \in BOOLEAN :
       LET ev == items[1]
           key == buildOriginKey(canon[1], ev)
           w1 == Looked([tgt |-> target, nid |-> nextId, log |-> <<>>], "byOrigin")
           m1 == findByOrigin(target, key, ord)
           r == IF m1 # 0 THEN [w |-> w1, mirror |-> m1]
                ELSE findByICalAndBackfill(w1, ev, key, ord,
                                           [NoFault EXCEPT !.backfill = backfill], now)
       IN  /\ backfill => Rejected(r.w.log, {"tag"}) # {}
           /\ target' = r.w.tgt
           /\ last' = [kind |-> "resolved", key |-> key, ev |-> ev, ord |-> ord,
                       before |-> target, mirror |-> r.mirror, log |-> r.w.log]
  /\ UNCHANGED <<nextId, now, stateFile, cfgSources, RESET_ALL, RESET_FOR, universe,
                 served, runVars, lockFile, pc, readPid, sawPid, refused, acquired,
                 writers, threw, budget, listed, recovering>>

\* A later findByOrigin for the same key.
LookupAgain ==
  /\ last.kind = "resolved"
  /\ \E ord \in Orders({e.id : e \in target}) :
       last' = [kind |-> "again", key |-> last.key, mirror |-> last.mirror,
                log |-> last.log, id |-> findByOrigin(target, last.key, ord)]
  /\ UNCHANGED <<envVars, runVars, lockFile, pc, readPid, sawPid, refused, acquired,
                 writers, threw, budget, listed, recovering>>

BackfillNext == ReResolve \/ LookupAgain

BackfillSpec == BackfillInit /\ [][BackfillNext]_vars

\* The events of tgt that have the iCalUID of ev, and those of them that are
\* the instance ev is: the same original start, which ev has.
SharingICal(tgt, ev) == IF ev.iCalUID = Null THEN {} ELSE TargetByICal(tgt, ev.iCalUID)

ExactInstances(tgt, ev) ==
  {c \in SharingICal(tgt, ev) :
     /\ isoOrDate(DateTimeOf(ev.originalStartTime), DateOf(ev.originalStartTime)) # <<>>
     /\ isoOrDate(DateTimeOf(c.originalStartTime), DateOf(c.originalStartTime))
          = isoOrDate(DateTimeOf(ev.originalStartTime), DateOf(ev.originalStartTime))}

C31_TagNeverReplaced ==
  [][\A e \in target, d \in target' :
       (e.id = d.id /\ e.origin # Null) => d.origin = e.origin]_vars

\* C32 (cursor is cleared only for a rejected source cursor): a step that
\* removes the stored cursor of a source from the state file is the
\* rejection of a list request on that source as expired.
C32_ClearedOnlyByRejectedList ==
  [][\A s \in CanonIds :
       (stateFile[s] # 0 /\ stateFile'[s] = 0)
       => (last'.kind = "gone" /\ last'.src = s)]_vars

\* C33 (cursor frame): a step of the sync of a source changes no other
\* source's entry of the state file or of the state in memory, and after the
\* step in which the list request of a source is rejected as expired the
\* source has no cursor in memory and none in the state file.
C33_CursorFrame ==
  [][(\E p \in Procs : pc[p] \in {"list", "events"} /\ canon # <<>>) =>
       /\ \A s \in CanonIds \ {Head(canon)} :
            stateFile'[s] = stateFile[s] /\ stateMem'[s] = stateMem[s]
       /\ (last'.kind = "gone" /\ \E p \in Procs : pc[p] = "list" /\ pc'[p] # "list") =>
            stateMem'[last'.src] = 0 /\ stateFile'[last'.src] = 0]_vars

\* C34 (fetch-mode invariant): every list request sent to a source carries
\* either the cursor or the time window (timeMin and timeMax), never both
\* and never neither; it carries the cursor exactly when the run holds a
\* cursor for the source, that is when one was stored at the start of the
\* source's sync and no rejection has removed it since (line 469), and the
\* cursor it carries is that one.
FetchKeys(params) == DOMAIN params \cap {"syncToken", "timeMin", "timeMax"}

C34_FetchMode ==
  last.kind \in {"list", "gone"} =>
    /\ FetchKeys(last.params) \in {{"syncToken"}, {"timeMin", "timeMax"}}
    /\ "syncToken" \in DOMAIN last.params <=> last.stored # 0
    /\ "syncToken" \in DOMAIN last.params => last.params.syncToken = last.stored

\* A source with no cursor is listed by time window, in a run that holds a
\* cursor for another source.
C34_Witness ==
  /\ last.kind = "list"
  /\ FetchKeys(last.params) = {"timeMin", "timeMax"}
  /\ last.stored = 0
  /\ \E s \in CanonIds : s # last.src /\ stateMem[s] # 0 /\ stateFile[s] # 0

(***************************************************************************)
(* The process is asked to stop (SIGTERM, SIGINT) during a run started from *)
(* the command line.                                                        *)
(***************************************************************************)
\* Lines 534-540: the CLI entry calls main() and installs no signal handler,
\* so the signal ends the process at once: the finally of line 529 does not
\* run, the files stay as they are and the memory of the run is gone. Here
\* the signal arrives when an item of the page is still to be processed.
Stop(p) ==
  /\ pc[p] = "events"
  /\ items # <<>>
  /\ pc' = [pc EXCEPT ![p] = "dead"]
  /\ stateMem' = NoTokens
  /\ canon' = <<>>
  /\ syncTok' = 0
  /\ pageToken' = 0
  /\ items' = <<>>
  /\ respPage' = 0
  /\ respSync' = 0
  /\ pagesFetched' = 0
  /\ shown' = {}
  /\ last' = [kind |-> "stopped", pid |-> p, mem |-> stateMem, src |-> Head(canon)]
  /\ UNCHANGED <<envVars, lockFile, readPid, sawPid, refused, acquired, writers, threw,
                 budget, listed, recovering>>

StopNext ==
  \/ \E p \in Procs :
       \/ MainStart(p)
       \/ LoadAndResolve(p)
       \/ SourceStart(p)
       \/ ListOk(p)
       \/ ListGone(p)
       \/ ListError(p)
       \/ EventStep(p)
       \/ PageEnd(p)
       \/ MainFinally(p)
       \/ Stop(p)
  \/ Tick

StopSpec == Init /\ [][StopNext]_vars

\* C35 (cancellation between events): when the process is asked to stop
\* between two events of a run, it exits with its lock record removed and
\* with every cursor the run holds written to the state file.
C35_StopReleasesAndFlushes ==
  last.kind = "stopped" =>
    /\ lockFile # <<last.pid>>
    /\ \A s \in CanonIds : last.mem[s] # 0 => stateFile[s] = last.mem[s]

(***************************************************************************)
(* POST /sync of the compiled server (dist/auth.js lines 331-380): main(),  *)
(* then the dedupe tool as a child process.                                 *)
(***************************************************************************)
\* auth.js lines 361-366: `await main(); await runDedupe();`. main returns
\* normally when it released the lock (line 530) and when acquireLock
\* returned false (line 493); when it throws, the catch of line 374 answers
\* 500 and dedupe is not run. The child inherits DRY_RUN; no delete of the
\* child is rejected here.
RunDedupe(p) ==
  /\ pc[p] \in {"done", "skipped"}
  /\ p \notin threw
  /\ \E ord \in Orders({e.id : e \in target}), dry \in BOOLEAN :
       /\ target' = dedupe(target, ord, dry, {})
       /\ last' = [kind |-> "runDedupe", pid |-> p, skipped |-> pc[p] = "skipped",
                   deleted |-> {e.id : e \in target \ target'}, lock |-> lockFile]
  /\ pc' = [pc EXCEPT ![p] = "replied"]
  /\ UNCHANGED <<nextId, now, stateFile, cfgSources, RESET_ALL, RESET_FOR, universe,
                 served, runVars, lockFile, readPid, sawPid, refused, acquired,
                 writers, threw, budget, listed, recovering>>

\* auth.js lines 374-378: main threw, the request is answered with 500.
ReplyError(p) ==
  /\ pc[p] = "done"
  /\ p \in threw
  /\ pc' = [pc EXCEPT ![p] = "replied"]
  /\ last' = Idle("error")
  /\ UNCHANGED <<envVars, runVars, lockFile, readPid, sawPid, refused, acquired,
                 writers, threw, budget, listed, recovering>>

HttpNext ==
  \/ \E p \in Procs :
       \/ MainStart(p)
       \/ LoadAndResolve(p)
       \/ SourceStart(p)
       \/ ListOk(p)
       \/ ListGone(p)
       \/ ListError(p)
       \/ EventStep(p)
       \/ PageEnd(p)
       \/ MainFinally(p)
       \/ RunDedupe(p)
       \/ ReplyError(p)
  \/ Tick

HttpSpec == Init /\ [][HttpNext]_vars

\* C36 (writes in the HTTP sync path are covered by the lock): a target write
\* made while POST /sync is handled, by the sync or by the dedupe step that
\* follows main, is made while the lock file names the handling process; a
\* request whose main was skipped writes nothing to the target.
C36_WritesUnderLock ==
  /\ (last.kind = "event"
      /\ Issued(last.log, {"insert", "patch", "tag", "delete"}) # {})
     => \E p \in Procs : Running(p) /\ lockFile = <<p>>
  /\ last.kind = "runDedupe" =>
       /\ last.deleted # {} => last.lock = <<last.pid>>
       /\ last.skipped => last.deleted = {}

(***************************************************************************)
(* Pages of source events that have attendees, processed against targets   *)
(* that hold the owner's own copy of the event, with attendees or without.  *)
(***************************************************************************)
MaxAttendees == 2

\* An item of sourceApi.events.list with n attendees.
Attended(e, n) == [e EXCEPT !.attendees = n]

AttendedEvents == {Attended(e, n) : e \in AllEvents, n \in 0..MaxAttendees}

\* The owner's own event of the same title and time, with one attendee.
AttendedTarget ==
  {Attended(TargetEvent(1, Null, Str("A"), Null, <<"x", "1">>, 2), 1)}

BodyInit ==
  /\ target \in InitTargets \cup {DescribedTarget, AttendedTarget}
  /\ nextId = 3
  /\ now = 2
  /\ stateFile = NoTokens
  /\ lockFile = <<>>
  /\ cfgSources = <<S1>>
  /\ RESET_ALL = FALSE
  /\ RESET_FOR = <<>>
  /\ universe = [s \in CanonIds |-> {}]
  /\ served \in Pages(AttendedEvents, now) \ {<<>>}
  /\ pc = [p \in Procs |-> "idle"]
  /\ readPid = [p \in Procs |-> 0]
  /\ sawPid = [p \in Procs |-> -1]
  /\ stateMem = NoTokens
  /\ canon = <<>>
  /\ syncTok = 0
  /\ pageToken = 0
  /\ items = <<>>
  /\ respPage = 0
  /\ respSync = 0
  /\ pagesFetched = 0
  /\ shown = {}
  /\ refused = {}
  /\ acquired = {}
  /\ writers = {}
  /\ threw = {}
  /\ budget = 0
  /\ listed = 0
  /\ recovering = {}
  /\ last = Idle("init")

BodyNext ==
  \E p \in Procs :
    \/ MainStart(p)
    \/ LoadAndResolve(p)
    \/ SourceStart(p)
    \/ ListServed(p)
    \/ EventStep(p)
    \/ PageEnd(p)
    \/ MainFinally(p)

BodySpec == BodyInit /\ [][BodyNext]_vars

\* The attendees of the event id of tgt; 0 when tgt has no such event.
AttendeesOf(tgt, id) ==
  IF \E e \in tgt : e.id = id THEN (CHOOSE e \in tgt : e.id = id).attendees ELSE 0

\* C37 (writer-produced bodies): an event that the processing of a source
\* event inserted or updated with a full body carries the identity key of
\* that source event as its origin tag, and the write gave it no attendees:
\* an inserted event has none and an updated one has those it had before.
C37_WriterBodies ==
  [][last'.kind = "event" =>
       \A i \in 1..Len(last'.log) :
         (last'.log[i].op \in {"insert", "patch"} /\ last'.log[i].ok) =>
           \A e \in target' :
             e.id = last'.log[i].id =>
               /\ e.origin = last'.key
               /\ e.attendees = AttendeesOf(target, e.id)]_vars

\* A source event with attendees has been written to the target, inserted
\* or as the full update of an event, which carries its key.
C37_Witness ==
  /\ last.kind = "event"
  /\ last.ev.attendees > 0
  /\ \E i \in 1..Len(last.log) :
       /\ last.log[i].op \in {"insert", "patch"}
       /\ last.log[i].ok
       /\ \E e \in target : e.id = last.log[i].id /\ e.origin = last.key

(***************************************************************************)
(* The dedupe tool with the answers of the service to its delete requests: *)
(* the compiled tool (dist/dedupeTarget.js) and its TypeScript source, on   *)
(* calendars of up to MaxDupes + 1 events.                                  *)
(***************************************************************************)
MaxDupes == 2

\* What the service answers to the delete of one duplicate: success, 'Quota
\* exceeded' and then success or failure when the request is sent again, or
\* another error.
DeleteOutcomes == {"ok", "quotaThenOk", "quotaThenFail", "error"}

\* dist/dedupeTarget.js lines 74-104: one delete, sent once more when the
\* message of the error includes 'Quota exceeded'; every error is caught.
deleteWithRetry(outcome) ==
  [calls |-> IF outcome \in {"quotaThenOk", "quotaThenFail"} THEN 2 ELSE 1,
   deleted |-> outcome \in {"ok", "quotaThenOk"}]

\* The TypeScript source of the tool (unnamed/part_001 lines 69-79): one
\* delete; the error is caught and logged.
deleteOnce(outcome) == [calls |-> 1, deleted |-> outcome = "ok"]

\* The two versions of the tool in the repository.
Builds == {"dist", "source"}

DeleteDupe(build, outcome) ==
  IF build = "dist" THEN deleteWithRetry(outcome) ELSE deleteOnce(outcome)

\* const dupes = sorted.slice(1), over all groups.
DedupeDupes(tgt, ord) ==
  {e.id : e \in {d \in tgt : /\ d.origin \in DedupeOrigins(tgt)
                             /\ d.id # DedupeKeep(tgt, d.origin, ord).id}}

ToolInit ==
  /\ target \in {{Mirror(i, shape[i]) : i \in ids} :
                   ids \in SUBSET (1..MaxDupes + 1),
                   shape \in [1..MaxDupes + 1 ->
                                [origin : {Null, KeyMaster}, created : 1..2]]}
  /\ nextId = MaxDupes + 2
  /\ now = MaxTime
  /\ stateFile = NoTokens
  /\ lockFile = <<>>
  /\ cfgSources = <<>>
  /\ RESET_ALL = FALSE
  /\ RESET_FOR = <<>>
  /\ universe = [s \in CanonIds |-> {}]
  /\ served = <<>>
  /\ pc = [p \in Procs |-> "idle"]
  /\ readPid = [p \in Procs |-> 0]
  /\ sawPid = [p \in Procs |-> -1]
  /\ stateMem = NoTokens
  /\ canon = <<>>
  /\ syncTok = 0
  /\ pageToken = 0
  /\ items = <<>>
  /\ respPage = 0
  /\ respSync = 0
  /\ pagesFetched = 0
  /\ shown = {}
  /\ refused = {}
  /\ acquired = {}
  /\ writers = {}
  /\ threw = {}
  /\ budget = 0
  /\ listed = 0
  /\ recovering = {}
  /\ last = Idle("init")

\* One run of dedupe(), lines 33-114 of dist/dedupeTarget.js or lines 24-89
\* of the TypeScript source.
ToolRun ==
  /\ \E build \in Builds, ord \in Orders({e.id : e \in target}), dry \in BOOLEAN :
     \E out \in [DedupeDupes(target, ord) -> DeleteOutcomes] :
       LET dupes == DedupeDupes(target, ord)
           fails == {id \in dupes : ~DeleteDupe(build, out[id]).deleted}
       IN  /\ target' = dedupe(target, ord, dry, fails)
           /\ last' = [kind |-> "tool", build |-> build, dry |-> dry,
                       before |-> target, out |-> out,
                       calls |-> [id \in dupes |->
                                    IF dry THEN 0 ELSE DeleteDupe(build, out[id]).calls]]
  /\ UNCHANGED <<nextId, now, stateFile, cfgSources, RESET_ALL, RESET_FOR, universe,
                 served, runVars, lockFile, pc, readPid, sawPid, refused, acquired,
                 writers, threw, budget, listed, recovering>>

ToolSpec == ToolInit /\ [][ToolRun]_vars

\* C38 (dedupe tool postcondition): after a run with DRY_RUN off in which
\* every duplicate was deleted, each origin tag is carried by one event at
\* most, an event of least creation time among those that carried it; an
\* event without origin tag is never deleted; the delete of a duplicate
\* that fails with 'Quota exceeded' is sent exactly once more, and every
\* duplicate has its delete sent, whatever was answered for the others.
C38_DedupePostcondition ==
  last.kind = "tool" =>
    /\ (~last.dry /\ \A id \in DOMAIN last.out : last.out[id] \in {"ok", "quotaThenOk"}) =>
         \A o \in Tags(last.before) :
           /\ Cardinality(TargetByOrigin(target, o)) = 1
           /\ Tagged(target, o) \subseteq Oldest(last.before, o)
    /\ \A e \in last.before : e.origin = Null => e \in target
    /\ ~last.dry =>
         \A id \in DOMAIN last.calls :
           last.calls[id] =
             IF last.out[id] \in {"quotaThenOk", "quotaThenFail"} THEN 2 ELSE 1

(***************************************************************************)
(* The maintenance tools cleanupTarget.ts and clearTwoWeeks.ts, and the     *)
(* dedupe tool under DRY_RUN, on calendars of up to MaxMirrors events with  *)
(* or without origin tag, inside the next two weeks or not.                 *)
(***************************************************************************)
\* String.prototype.startsWith
StartsWith(s, prefix) ==
  Len(s) >= Len(prefix) /\ SubSeq(s, 1, Len(prefix)) = prefix

\* Every event with an origin tag is taken for a mirror.
AnyTagged(origin, ids) == origin \notin {Null, <<>>}

\* cleanupTarget.ts lines 56-59, clearTwoWeeks.ts lines 98-102:
\* if (!origin) continue; ids.some(src => origin.startsWith(`${src}:`))
IsFromSources(origin, ids) ==
  /\ origin \notin {Null, <<>>}
  /\ \E i \in 1..Len(ids) : StartsWith(origin, ids[i] \o Colon)

\* cleanupTarget.ts lines 39-73: run(); the ids are those of
\* SOURCE_CALENDAR_IDS as they are written, and the tool has no dry run.
\* fails holds the ids of the events whose delete is rejected.
cleanupTarget(tgt, ids, fails) ==
  {e \in tgt : ~IsFromSources(e.origin, ids) \/ e.id \in fails}

\* clearTwoWeeks.ts lines 79-94: events.list with timeMin and timeMax.
InTwoWeeks(tgt, t) == {e \in tgt : EndOf(e) > t /\ StartOf(e) < t + TwoWeeks}

\* clearTwoWeeks.ts lines 64-136: run(); the ids are resolved first.
clearTwoWeeks(tgt, ids, t, dry, fails) ==
  {e \in tgt : \/ dry
               \/ e \notin InTwoWeeks(tgt, t)
               \/ ~IsFromSources(e.origin, canonicalSourceIds(ids))
               \/ e.id \in fails}

T3 == <<Str("T3"), Null>>

\* The origin tags of the calendars: none, the empty string, a key of s1,
\* of s2, of the alias primary, of a calendar whose id begins like s1, and
\* the bare id of s1.
CleanTags ==
  {Null, <<>>, KeyMaster, S2 \o Colon \o Str("u1"), Primary \o Colon \o Str("u1"),
   <<"s10", ":", "u1">>, S1}

\* An event of the target with the tag, from T3 to T3 (inside the window of
\* a run at time 2) or from T1 to T2 (before it).
CleanEvent(id, shape) ==
  [Mirror(id, [origin |-> shape.origin, created |-> 1])
     EXCEPT !.start = IF shape.soon THEN T3 ELSE T1,
            !.end = IF shape.soon THEN T3 ELSE T2]

CleanInit ==
  /\ target \in {{CleanEvent(i, shape[i]) : i \in ids} :
                   ids \in SUBSET (1..MaxMirrors),
                   shape \in [1..MaxMirrors -> [origin : CleanTags, soon : BOOLEAN]]}
  /\ nextId = MaxMirrors + 1
  /\ now = 2
  /\ stateFile = NoTokens
  /\ lockFile = <<>>
  /\ cfgSources \in {<<Primary>>, <<S1>>, <<S2>>, <<Primary, S2>>}
  /\ RESET_ALL = FALSE
  /\ RESET_FOR = <<>>
  /\ universe = [s \in CanonIds |-> {}]
  /\ served = <<>>
  /\ pc = [p \in Procs |-> "idle"]
  /\ readPid = [p \in Procs |-> 0]
  /\ sawPid = [p \in Procs |-> -1]
  /\ stateMem = NoTokens
  /\ canon = <<>>
  /\ syncTok = 0
  /\ pageToken = 0
  /\ items = <<>>
  /\ respPage = 0
  /\ respSync = 0
  /\ pagesFetched = 0
  /\ shown = {}
  /\ refused = {}
  /\ acquired = {}
  /\ writers = {}
  /\ threw = {}
  /\ budget = 0
  /\ listed = 0
  /\ recovering = {}
  /\ last = Idle("init")

\* One run of a tool: tool names it, dry is DRY_RUN, ids are the source ids
\* the tool compares the tags with.
CleanStep(tool, dry, ids, after) ==
  /\ target' = after
  /\ last' = [kind |-> "tool", tool |-> tool, dry |-> dry, ids |-> ids,
              before |-> target]
  /\ UNCHANGED <<nextId, now, stateFile, cfgSources, RESET_ALL, RESET_FOR, universe,
                 served, runVars, lockFile, pc, readPid, sawPid, refused, acquired,
                 writers, threw, budget, listed, recovering>>

CleanupRun ==
  \E fails \in {{}} \cup {{e.id} : e \in target} :
    CleanStep("cleanupTarget", FALSE, cfgSources,
              cleanupTarget(target, cfgSources, fails))

ClearRun ==
  \E dry \in BOOLEAN, fails \in {{}} \cup {{e.id} : e \in target} :
    CleanStep("clearTwoWeeks", dry, canonicalSourceIds(cfgSources),
              clearTwoWeeks(target, cfgSources, now, dry, fails))

DedupeToolRun ==
  \E dry \in BOOLEAN, ord \in Orders({e.id : e \in target}) :
    CleanStep("dedupeTarget", dry, <<>>, dedupe(target, ord, dry, {}))

CleanNext == CleanupRun \/ ClearRun \/ DedupeToolRun

CleanSpec == CleanInit /\ [][CleanNext]_vars

\* C39 (maintenance tools delete only mirrors and respect dry run): an event
\* that cleanupTarget or clearTwoWeeks deleted had an origin tag that starts
\* with a source id followed by ':', the id being one of SOURCE_CALENDAR_IDS
\* as written for cleanupTarget and as resolved for clearTwoWeeks; events
\* with no tag or with another prefix stay as they are; under DRY_RUN=1
\* clearTwoWeeks and dedupeTarget delete nothing.
C39_OnlyMirrorsDeleted ==
  last.kind = "tool" =>
    /\ target \subseteq last.before
    /\ last.tool \in {"cleanupTarget", "clearTwoWeeks"} =>
         \A e \in last.before \ target :
           /\ e.origin \notin {Null, <<>>}
           /\ \E i \in 1..Len(last.ids) : StartsWith(e.origin, last.ids[i] \o Colon)
    /\ (last.dry /\ last.tool \in {"clearTwoWeeks", "dedupeTarget"}) =>
         target = last.before

\* clearTwoWeeks, DRY_RUN off, deleted a mirror and left an event tagged
\* with another prefix in the window.
C39_Witness ==
  /\ last.kind = "tool"
  /\ last.tool = "clearTwoWeeks"
  /\ ~last.dry
  /\ last.before \ target # {}
  /\ \E e \in InTwoWeeks(target, now) :
       e.origin \notin {Null, <<>>} /\ ~IsFromSources(e.origin, last.ids)

(***************************************************************************)
(* normalizeICalUID and buildOriginKey on two events of one source whose   *)
(* iCalUID is absent, empty, plain, or ends with '@google.com' once or      *)
(* twice.                                                                   *)
(***************************************************************************)
NormEvents ==
  {[id |-> Str("e1"), iCalUID |-> uid, originalStartTime |-> orig] :
     uid \in {Null, <<>>, <<"u1">>, <<"u1", GoogleSuffix>>,
              <<"u1", GoogleSuffix, GoogleSuffix>>},
     orig \in {Null, <<Str("T1"), Null>>}}

NormInit ==
  /\ target = {}
  /\ nextId = 1
  /\ now = 1
  /\ stateFile = NoTokens
  /\ lockFile = <<>>
  /\ cfgSources = <<>>
  /\ RESET_ALL = FALSE
  /\ RESET_FOR = <<>>
  /\ universe = [s \in CanonIds |-> {}]
  /\ served = <<>>
  /\ pc = [p \in Procs |-> "idle"]
  /\ readPid = [p \in Procs |-> 0]
  /\ sawPid = [p \in Procs |-> -1]
  /\ stateMem = NoTokens
  /\ canon \in {<<s, s>> : s \in CanonIds}
  /\ syncTok = 0
  /\ pageToken = 0
  /\ items \in [1..2 -> NormEvents]
  /\ respPage = 0
  /\ respSync = 0
  /\ pagesFetched = 0
  /\ shown = {}
  /\ refused = {}
  /\ acquired = {}
  /\ writers = {}
  /\ threw = {}
  /\ budget = 0
  /\ listed = 0
  /\ recovering = {}
  /\ last = Idle("init")

\* Lines 135-145 for the two events: normalizeICalUID applied to the
\* identifier once and to its own result, and the keys.
Normalize ==
  /\ last.kind = "init"
  /\ last' = [kind |-> "norm",
              once |-> [i \in 1..2 |->
                          normalizeICalUID(IF items[i].iCalUID # Null
                                             THEN items[i].iCalUID ELSE items[i].id)],
              twice |-> [i \in 1..2 |->
                           normalizeICalUID(normalizeICalUID(
                             IF items[i].iCalUID # Null
                               THEN items[i].iCalUID ELSE items[i].id))],
              key |-> [i \in 1..2 |-> buildOriginKey(canon[i], items[i])]]
  /\ UNCHANGED <<envVars, runVars, lockFile, pc, readPid, sawPid, refused, acquired,
                 writers, threw, budget, listed, recovering>>

NormSpec == NormInit /\ [][Normalize]_vars

\* C40 (stable-identifier normalization): normalizing a normalized
\* identifier changes nothing; two events of one source with the same
\* original start whose identifiers differ only by a trailing '@google.com'
\* get the same key; an event without iCalUID is keyed by its local id.
C40_NormalizedOnce ==
  last.kind = "norm" =>
    /\ \A i \in 1..2 : last.twice[i] = last.once[i]
    /\ (/\ items[1].iCalUID # Null
        /\ items[2].iCalUID = items[1].iCalUID \o <<GoogleSuffix>>
        /\ items[1].originalStartTime = items[2].originalStartTime)
       => last.key[1] = last.key[2]
    /\ \A i \in 1..2 :
         items[i].iCalUID = Null =>
           last.key[i] = buildOriginKey(canon[i], [items[i] EXCEPT !.iCalUID = items[i].id])

====
